---- MODULE Spec2Model ----
(***************************************************************************)
(* A model of the package build/dependency engine of cubicle                *)
(* (src/src/packages.rs): scan_packages, transitive_depends, the update     *)
(* loop update_packages, package_is_stale and the per-package build         *)
(* update_package / update_package_, over the package cache directory.      *)
(*                                                                         *)
(* Strings that the code only compares are TLA+ strings; strings that the   *)
(* code assembles (display names, error messages) are sequences of tokens.  *)
(* Time is a bounded integer clock; a file is a record of its mtime and of  *)
(* the invocation that wrote its bytes.                                     *)
(***************************************************************************)
EXTENDS Integers, Sequences, FiniteSets, TLC

\* ------------------------------------------------------------------------
\* Bounds of the model
\* ------------------------------------------------------------------------

\* The clock runs from 0 to MaxClock.  It is coarse: every update_packages
\* invocation starts at a new instant and all it writes carries that instant,
\* so MaxClock is also the number of invocations of one behaviour.
MaxClock == 2

\* The same for the invocations of RefreshSpec.
MaxRefreshClock == 3

\* ------------------------------------------------------------------------
\* Names
\* ------------------------------------------------------------------------

\* PackageNamespace: Root, Debian, Managed(manager).
NsRoot == [kind |-> "Root", manager |-> ""]
NsDebian == [kind |-> "Debian", manager |-> ""]
NsManaged(m) == [kind |-> "Managed", manager |-> m]

\* FullPackageName(namespace, name).
FullPackageName(ns, name) == [ns |-> ns, name |-> name]
Root(n) == FullPackageName(NsRoot, n)
Debian(n) == FullPackageName(NsDebian, n)
Managed(m, n) == FullPackageName(NsManaged(m), n)

\* PackageNamespace::as_str.
as_str(ns) ==
    CASE ns.kind = "Root" -> "root"
      [] ns.kind = "Debian" -> "debian"
      [] OTHER -> ns.manager

\* FullPackageName::unquoted, as the sequence of the pieces it concatenates.
unquoted(p) ==
    IF p.ns = NsRoot THEN <<p.name>> ELSE <<as_str(p.ns), ".", p.name>>

\* Display for FullPackageName: the unquoted name between double quotes.
Display(p) == <<"\"">> \o unquoted(p) \o <<"\"">>

\* The package names of the model.  "missing" never has a package
\* definition.  No two of them share a display name.
RootNames == {"a", "auto", "b", "c"}
Universe ==
    {Root(n) : n \in RootNames \cup {"missing"}}
        \cup {Debian("curl"), Managed("c", "n"), Managed("missing", "n")}

\* The universe in the order of Ord for FullPackageName (the byte order of
\* the unquoted names): a, auto, b, c, c.n, debian.curl, missing, missing.n.
\* It is the iteration order of a BTreeSet<FullPackageName>.
ByDisplay ==
    << Root("a"), Root("auto"), Root("b"), Root("c"), Managed("c", "n"),
       Debian("curl"), Root("missing"), Managed("missing", "n") >>

\* The universe in the iteration order of a manifest table
\* BTreeMap<PackageNamespace, BTreeMap<PackageName, _>>: the derived order of
\* PackageNamespace (Root, Debian, Managed by manager), then the name.
ByNamespace ==
    << Root("a"), Root("auto"), Root("b"), Root("c"), Root("missing"),
       Debian("curl"), Managed("c", "n"), Managed("missing", "n") >>

\* The members of set S in the order of sequence order.
InOrder(order, S) == SelectSeq(order, LAMBDA p : p \in S)

\* ------------------------------------------------------------------------
\* Package sources: manifests as read from package.toml
\* ------------------------------------------------------------------------

\* PackageSpec: the manifest (package_manager, depends, build_depends) and
\* whether update.sh and test.sh exist.
PackageSpec(mgr, deps, bdeps, update, test) ==
    [package_manager |-> mgr, depends |-> deps, build_depends |-> bdeps,
     update |-> update, test |-> test]

NoDeps == {}

\* The source trees the model runs on: for each, the package directories
\* found (name -> PackageSpec before the implicit "auto" dependency) and the
\* configured auto_update duration (-1: not configured).
Sources ==
    << \* 1: auto and a both build-depend on b; a needs a Debian package.
       [ dirs |->
           [n \in {"a", "auto", "b"} |->
              CASE n = "a" -> PackageSpec(FALSE, {Debian("curl")}, {Root("b")}, TRUE, FALSE)
                [] n = "auto" -> PackageSpec(FALSE, NoDeps, {Root("b")}, FALSE, FALSE)
                [] n = "b" -> PackageSpec(FALSE, NoDeps, NoDeps, TRUE, TRUE)],
         auto_update |-> 0 ],
       \* 2: a chain a -> b -> c in which b has no update.sh.
       [ dirs |->
           [n \in {"a", "auto", "b", "c"} |->
              CASE n = "a" -> PackageSpec(FALSE, {Root("b")}, NoDeps, TRUE, TRUE)
                [] n = "auto" -> PackageSpec(FALSE, NoDeps, NoDeps, FALSE, FALSE)
                [] n = "b" -> PackageSpec(FALSE, {Root("c")}, NoDeps, FALSE, FALSE)
                [] n = "c" -> PackageSpec(FALSE, NoDeps, NoDeps, TRUE, FALSE)],
         auto_update |-> -1 ],
       \* 3: dependencies that cannot be resolved.
       [ dirs |->
           [n \in {"a", "auto", "b", "c"} |->
              CASE n = "a" -> PackageSpec(FALSE, {Root("missing")}, NoDeps, TRUE, FALSE)
                [] n = "auto" -> PackageSpec(FALSE, NoDeps, NoDeps, TRUE, FALSE)
                [] n = "b" -> PackageSpec(FALSE, {Managed("c", "n")}, NoDeps, TRUE, FALSE)
                [] n = "c" -> PackageSpec(FALSE, NoDeps, {Managed("missing", "n")}, TRUE, FALSE)],
         auto_update |-> -1 ],
       \* 4: a dependency cycle a <-> b.
       [ dirs |->
           [n \in {"a", "auto", "b"} |->
              CASE n = "a" -> PackageSpec(FALSE, {Root("b")}, NoDeps, TRUE, FALSE)
                [] n = "auto" -> PackageSpec(FALSE, NoDeps, NoDeps, FALSE, FALSE)
                [] n = "b" -> PackageSpec(FALSE, NoDeps, {Root("a")}, TRUE, FALSE)],
         auto_update |-> -1 ],
       \* 5: a package manager c and a package of its namespace.
       [ dirs |->
           [n \in {"a", "auto", "c"} |->
              CASE n = "a" -> PackageSpec(FALSE, {Managed("c", "n")}, NoDeps, TRUE, FALSE)
                [] n = "auto" -> PackageSpec(FALSE, NoDeps, NoDeps, FALSE, FALSE)
                [] n = "c" -> PackageSpec(TRUE, NoDeps, NoDeps, TRUE, TRUE)],
         auto_update |-> 1 ],
       \* 6: the cycle a <-> b, c that depends on it, and auto that is built.
       [ dirs |->
           [n \in {"a", "auto", "b", "c"} |->
              CASE n = "a" -> PackageSpec(FALSE, {Root("b")}, NoDeps, TRUE, FALSE)
                [] n = "auto" -> PackageSpec(FALSE, NoDeps, NoDeps, TRUE, FALSE)
                [] n = "b" -> PackageSpec(FALSE, NoDeps, {Root("a")}, TRUE, FALSE)
                [] n = "c" -> PackageSpec(FALSE, {Root("a")}, NoDeps, TRUE, FALSE)],
         auto_update |-> -1 ] >>

\* ------------------------------------------------------------------------
\* Errors and messages
\* ------------------------------------------------------------------------

NoError == [kind |-> "none", msg |-> <<>>]
Err(kind, msg) == [kind |-> kind, msg |-> msg]

\* The text s occurs in message msg (a sequence of tokens).
Contains(msg, s) == \E i \in 1..Len(msg) : msg[i] = s

\* The token sequence t occurs in msg as a contiguous run.
ContainsSeq(msg, t) ==
    \E i \in 0..(Len(msg) - Len(t)) : \A j \in 1..Len(t) : msg[i + j] = t[j]

RECURSIVE JoinNames(_)
\* names.iter().map(to_string).collect().join(", ")
JoinNames(names) ==
    IF names = <<>> THEN <<>>
    ELSE IF Len(names) = 1 THEN Display(names[1])
    ELSE Display(names[1]) \o <<", ">> \o JoinNames(Tail(names))

\* ------------------------------------------------------------------------
\* transitive_depends
\* ------------------------------------------------------------------------

\* The spec a package is looked up by: its own for a Root package, the
\* manager's for a Managed package.
SpecKey(p) == IF p.ns.kind = "Managed" THEN p.ns.manager ELSE p.name

\* A variant of NotFoundMsg that never names the needing package.
NotFoundMsgUnnamed(p, needed_by) ==
    <<"could not find package definition for ">> \o Display(p)

NotFoundMsg(p, needed_by) ==
    IF needed_by = <<>>
    THEN <<"could not find package definition for ">> \o Display(p)
    ELSE IF p.ns.kind = "Managed"
    THEN <<"could not find package definition for package manager ",
           "\"", as_str(p.ns), "\"", ", needed by ">> \o Display(needed_by[1])
    ELSE <<"could not find package definition for ">> \o Display(p)
             \o <<", needed by ">> \o Display(needed_by[1])

\* A variant of Children that goes on to the build_depends table whatever
\* the flag is.
ChildrenWithBuildDepends(spec, build_depends) ==
    InOrder(ByNamespace, spec.depends) \o InOrder(ByNamespace, spec.build_depends)

\* The packages visit(p) goes on to, in order: the depends table, then,
\* with the flag set, the build_depends table.
Children(spec, build_depends) ==
    InOrder(ByNamespace, spec.depends)
        \o (IF build_depends THEN InOrder(ByNamespace, spec.build_depends) ELSE <<>>)

RECURSIVE visit(_, _, _, _, _), visit_all(_, _, _, _, _)
\* Visitor::visit: st is [visited, err]; needed_by is <<>> or <<package>>.
visit(specs, build_depends, st, p, needed_by) ==
    IF st.err # NoError \/ p \in st.visited THEN st
    ELSE LET st1 == [st EXCEPT !.visited = @ \cup {p}]
         IN CASE p.ns.kind = "Debian" -> st1
              [] SpecKey(p) \notin DOMAIN specs ->
                    [st1 EXCEPT !.err = Err("not_found", NotFoundMsg(p, needed_by))]
              [] p.ns.kind = "Managed" /\ ~specs[SpecKey(p)].package_manager ->
                    [st1 EXCEPT !.err =
                        Err("not_manager",
                            <<"package ", "\"", as_str(p.ns), "\"", " is not a package manager">>)]
              [] OTHER ->
                    visit_all(specs, build_depends, st1,
                              Children(specs[SpecKey(p)], build_depends), <<p>>)

visit_all(specs, build_depends, st, ps, needed_by) ==
    IF ps = <<>> THEN st
    ELSE visit_all(specs, build_depends,
                   visit(specs, build_depends, st, Head(ps), needed_by),
                   Tail(ps), needed_by)

\* transitive_depends(packages, specs, build_depends): [visited, err].
transitive_depends(packages, specs, build_depends) ==
    visit_all(specs, build_depends, [visited |-> {}, err |-> NoError],
              InOrder(ByDisplay, packages), <<>>)

\* ------------------------------------------------------------------------
\* scan_packages
\* ------------------------------------------------------------------------

\* add_packages: every package found gets a Root dependency on "auto".
add_packages(dirs) ==
    [n \in DOMAIN dirs |-> [dirs[n] EXCEPT !.depends = @ \cup {Root("auto")}]]

\* scan_packages when it takes the dependency on "auto" only from the members
\* of auto's build closure themselves.
scan_packages_members_only(dirs_) ==
    LET added == add_packages(dirs_)
        auto_deps == transitive_depends({Root("auto")}, added, TRUE)
    IN  [specs |-> [n \in DOMAIN added |->
                       IF Root(n) \in auto_deps.visited
                       THEN [added[n] EXCEPT !.depends = @ \ {Root("auto")}]
                       ELSE added[n]],
         err |-> auto_deps.err]

\* scan_packages when it takes the dependency on "auto" from auto alone.
scan_packages_auto_only(dirs_) ==
    LET added == add_packages(dirs_)
        auto_deps == transitive_depends({Root("auto")}, added, TRUE)
    IN  [specs |-> [n \in DOMAIN added |->
                       IF n = "auto"
                       THEN [added[n] EXCEPT !.depends = @ \ {Root("auto")}]
                       ELSE added[n]],
         err |-> auto_deps.err]

\* scan_packages: add_packages, then the dependency on "auto" is removed from
\* every spec that a member of auto's build closure is looked up by.
\* [specs, err].
scan_packages(dirs) ==
    LET added == add_packages(dirs)
        auto_deps == transitive_depends({Root("auto")}, added, TRUE)
        keys == {SpecKey(p) : p \in {q \in auto_deps.visited : q.ns.kind # "Debian"}}
    IN IF auto_deps.err # NoError THEN [specs |-> added, err |-> auto_deps.err]
       ELSE IF ~(keys \subseteq DOMAIN added)
       THEN [specs |-> added,
             err |-> Err("scan", <<"package \"auto\" depends on a package but package not found">>)]
       ELSE [specs |-> [n \in DOMAIN added |->
                           IF n \in keys
                           THEN [added[n] EXCEPT !.depends = @ \ {Root("auto")}]
                           ELSE added[n]],
             err |-> NoError]

\* The specs of every source tree, scanned once.
Scanned == [i \in DOMAIN Sources |-> scan_packages(Sources[i].dirs)]

\* ------------------------------------------------------------------------
\* scan_packages and transitive_depends called on their own
\* ------------------------------------------------------------------------

\* What a manifest of the model may depend on.
DepTargets ==
    {Root("a"), Root("c"), Root("missing"), Managed("c", "n"),
     Managed("missing", "n"), Debian("curl")}

\* The manifests of the model: nothing, or one package in depends, or one
\* package in build_depends.
Manifests ==
    {[depends |-> NoDeps, build_depends |-> NoDeps]}
        \cup {[depends |-> {p}, build_depends |-> NoDeps] : p \in DepTargets}
        \cup {[depends |-> NoDeps, build_depends |-> {p}] : p \in DepTargets}

\* The manifests of c in the model: those that depend on nothing it is
\* looked up by.
ManifestsOfC ==
    {m \in Manifests :
        (m.depends \cup m.build_depends)
            \subseteq {Root("a"), Root("missing"), Debian("curl")}}

\* The package directories of the model: a, auto and c with a manifest each;
\* c may be a package manager.
Trees ==
    {[n \in {"a", "auto", "c"} |->
         PackageSpec(n = "c" /\ mgr, m[n].depends, m[n].build_depends, TRUE, FALSE)] :
        m \in {f \in [{"a", "auto", "c"} -> Manifests] : f["c"] \in ManifestsOfC},
        mgr \in BOOLEAN}

\* The sets of packages that transitive_depends is asked for.
Asked ==
    {{Root("a")}, {Root("c")}, {Managed("c", "n")}, {Root("a"), Debian("curl")}}

\* The packages whose artifact <cache>/<name>.tar may exist, and the sets of
\* those that do when a package is built.
Artifacts == {Root("a"), Root("auto"), Root("c"), Managed("c", "n")}
Caches == {{}, {Root("a")}, {Root("auto"), Root("c")}, Artifacts}

\* The seeds of an environment: the artifact of a package in the cache, and
\* the tar made of a package's source directory under a prefix.
CacheTar(p) == [tar |-> "package_cache", of |-> p, prefix |-> ""]
SourceTar(dir, prefix) == [tar |-> "source", of |-> Root(dir), prefix |-> prefix]

\* A variant of packages_to_seeds that follows build_depends too.
packages_to_seeds_build_depends(packages_, specs_, cached) ==
    LET deps == transitive_depends(packages_, specs_, TRUE)
        names == InOrder(ByDisplay, deps.visited \cap cached)
    IN  [err |-> deps.err,
         seeds |-> IF deps.err # NoError THEN <<>>
                   ELSE [i \in DOMAIN names |-> CacheTar(names[i])]]

\* packages_to_seeds: the artifacts that exist of the packages and of what
\* they depend on at run time.  [seeds, err].
packages_to_seeds(packages_, specs_, cached) ==
    LET deps == transitive_depends(packages_, specs_, FALSE)
        names == InOrder(ByDisplay, deps.visited \cap cached)
    IN  [err |-> deps.err,
         seeds |-> IF deps.err # NoError THEN <<>>
                   ELSE [i \in DOMAIN names |-> CacheTar(names[i])]]

\* build_package up to the Init it gives the Runner: the seeds are those of
\* the package's build_depends and depends, then the tar of its source
\* directory under w.  [packages, seeds, err].
build_package_init(package_name, specs_, cached) ==
    LET spec == specs_[SpecKey(package_name)]
        packages_ == spec.build_depends \cup spec.depends
        seeds == packages_to_seeds(packages_, specs_, cached)
    IN  [packages |-> packages_,
         err |-> seeds.err,
         seeds |-> IF seeds.err # NoError THEN <<>>
                   ELSE Append(seeds.seeds, SourceTar(SpecKey(package_name), "w"))]

\* What the last call returned: for scan_packages, the specs; for
\* transitive_depends, the packages visited; for build_package, the seeds;
\* and the error.
Returned(op, asked, build_depends, specs_, visited, err) ==
    [op |-> op, packages |-> asked, build_depends |-> build_depends,
     specs |-> specs_, visited |-> visited, err |-> err,
     package_name |-> <<>>, cached |-> {}, seeds |-> <<>>]
NotReturned == Returned("", {}, FALSE, <<>>, {}, NoError)
NoDirs == <<>>

\* ------------------------------------------------------------------------
\* Names as the characters they are made of
\* ------------------------------------------------------------------------

\* Where the code parses, formats and compares names, a string is the
\* sequence of its characters and a name holds such a sequence.  Byte is the
\* UTF-8 encoding of the characters of the model, all of them ASCII.
Byte(c) ==
    CASE c = "\n" -> 10 [] c = " " -> 32 [] c = "-" -> 45 [] c = "." -> 46
      [] c = "/" -> 47 [] c = "_" -> 95
      [] c = "a" -> 97 [] c = "b" -> 98 [] c = "c" -> 99 [] c = "d" -> 100
      [] c = "e" -> 101 [] c = "f" -> 102 [] c = "g" -> 103 [] c = "i" -> 105
      [] c = "k" -> 107 [] c = "l" -> 108 [] c = "n" -> 110 [] c = "o" -> 111
      [] c = "p" -> 112 [] c = "r" -> 114 [] c = "s" -> 115 [] c = "t" -> 116
      [] c = "u" -> 117 [] c = "x" -> 120

is_ascii_alphanumeric(c) ==
    Byte(c) \in (48..57) \cup (65..90) \cup (97..122)

is_whitespace(c) == c \in {" ", "\n"}

\* str::trim.
RECURSIVE trim_start(_)
trim_start(s) ==
    IF s # <<>> /\ is_whitespace(Head(s)) THEN trim_start(Tail(s)) ELSE s

RECURSIVE trim_end(_)
trim_end(s) ==
    IF s # <<>> /\ is_whitespace(s[Len(s)])
    THEN trim_end(SubSeq(s, 1, Len(s) - 1))
    ELSE s

trim(s) == trim_end(trim_start(s))

\* The index of the first c in s, or 0.
find(s, c) ==
    IF \E i \in 1..Len(s) : s[i] = c
    THEN CHOOSE i \in 1..Len(s) : s[i] = c /\ \A j \in 1..(i - 1) : s[j] # c
    ELSE 0

\* The results of the parsers: Parsed(value) or NotParsed(message).
Parsed(v) == [ok |-> TRUE, value |-> <<v>>, err |-> ""]
NotParsed(msg) == [ok |-> FALSE, value |-> <<>>, err |-> msg]

\* FromStr for PackageName.
PackageName_from_str(str) ==
    LET s == trim(str)
    IN  IF s = <<>> THEN NotParsed("package name cannot be empty")
        ELSE IF \E i \in 1..Len(s) :
                    \/ ~is_ascii_alphanumeric(s[i]) /\ s[i] \notin {"-", "_", "."}
                    \/ is_whitespace(s[i])
             THEN NotParsed("package name cannot contain special characters")
             ELSE Parsed(s)

\* FromStr for PackageNamespace.
PackageNamespace_from_str(str) ==
    LET s == trim(str)
    IN  IF s = <<>> THEN NotParsed("package namespace cannot be empty")
        ELSE IF \E i \in 1..Len(s) :
                    \/ ~is_ascii_alphanumeric(s[i]) /\ s[i] \notin {"-", "_"}
                    \/ is_whitespace(s[i])
             THEN NotParsed("package namespace cannot contain special characters")
             ELSE IF s = <<"c", "u", "b", "i", "c", "l", "e">> THEN Parsed(NsRoot)
             ELSE IF s = <<"d", "e", "b", "i", "a", "n">> THEN Parsed(NsDebian)
             ELSE LET name == PackageName_from_str(s)
                  IN  IF name.ok THEN Parsed(NsManaged(name.value[1])) ELSE name

\* PackageNamespace::as_str, in characters.
PackageNamespace_as_str(ns) ==
    CASE ns.kind = "Root" -> <<"r", "o", "o", "t">>
      [] ns.kind = "Debian" -> <<"d", "e", "b", "i", "a", "n">>
      [] OTHER -> ns.manager

\* A name written with its namespace whatever the namespace is.
FullPackageName_unquoted_qualified(p) ==
    PackageNamespace_as_str(p.ns) \o <<".">> \o p.name

\* FullPackageName::unquoted, in characters.
FullPackageName_unquoted(p) ==
    IF p.ns = NsRoot THEN p.name
    ELSE PackageNamespace_as_str(p.ns) \o <<".">> \o p.name

\* FromStr for FullPackageName: the text is split at its first '.'.
FullPackageName_from_str(str) ==
    LET s == trim(str)
        dot == find(s, ".")
    IN  IF dot # 0
        THEN LET ns == PackageNamespace_from_str(SubSeq(s, 1, dot - 1))
                 name == PackageName_from_str(SubSeq(s, dot + 1, Len(s)))
             IN  IF ~ns.ok THEN ns
                 ELSE IF ~name.ok THEN name
                 ELSE Parsed(FullPackageName(ns.value[1], name.value[1]))
        ELSE LET name == PackageName_from_str(s)
             IN  IF name.ok THEN Parsed(Root(name.value[1])) ELSE name

\* Ord for str: the bytes are compared one by one, a proper prefix is Less.
RECURSIVE str_cmp(_, _)
str_cmp(s, t) ==
    IF s = <<>> THEN (IF t = <<>> THEN "Equal" ELSE "Less")
    ELSE IF t = <<>> THEN "Greater"
    ELSE IF Byte(Head(s)) < Byte(Head(t)) THEN "Less"
    ELSE IF Byte(Head(s)) > Byte(Head(t)) THEN "Greater"
    ELSE str_cmp(Tail(s), Tail(t))

\* The order that #[derive(Ord)] would give FullPackageName: the namespace
\* first (Root, Debian, Managed by manager), then the name.
FullPackageName_cmp_derived(x, y) ==
    LET rank(ns) == CASE ns.kind = "Root" -> 0 [] ns.kind = "Debian" -> 1
                      [] OTHER -> 2
    IN  IF rank(x.ns) < rank(y.ns) THEN "Less"
        ELSE IF rank(x.ns) > rank(y.ns) THEN "Greater"
        ELSE IF x.ns.kind = "Managed"
                    /\ str_cmp(x.ns.manager, y.ns.manager) # "Equal"
             THEN str_cmp(x.ns.manager, y.ns.manager)
             ELSE str_cmp(x.name, y.name)

\* Ord for FullPackageName.
FullPackageName_cmp(x, y) ==
    str_cmp(FullPackageName_unquoted(x), FullPackageName_unquoted(y))

\* FromStr for EnvironmentName, in characters.
EnvironmentName_from_str(str) ==
    LET s == trim(str)
    IN  IF s = <<>> THEN NotParsed("environment name cannot be empty")
        ELSE IF \E i \in 1..Len(s) :
                    \/ ~is_ascii_alphanumeric(s[i]) /\ s[i] \notin {"-", "_"}
                    \/ is_whitespace(s[i])
             THEN NotParsed("environment name cannot contain special characters")
        ELSE IF find(s, "/") # 0
             THEN NotParsed("environment name cannot have slashes")
        ELSE IF s \in {<<".">>, <<".", ".">>}
             THEN NotParsed("environment name cannot manipulate path")
        ELSE Parsed(s)

\* EnvironmentName::for_builder_package on the text that shows the package:
\* from_str(format!("package-{package}")), which unwrap() takes the name
\* from; NotParsed is the panic of unwrap().
EnvironmentName_for_builder_package(package) ==
    EnvironmentName_from_str(<<"p", "a", "c", "k", "a", "g", "e", "-">> \o package)

\* test_package: the name of the test environment, "test-" before the name
\* of the builder environment.
EnvironmentName_for_test(package) ==
    LET builder == EnvironmentName_for_builder_package(package)
    IN  IF ~builder.ok THEN builder
        ELSE EnvironmentName_from_str(<<"t", "e", "s", "t", "-">> \o builder.value[1])

\* FullPackageName::as_filename_component, in characters.
FullPackageName_as_filename_component(p) == FullPackageName_unquoted(p)

\* The files of a package in the package cache: format!("{}.tar", ..) of
\* last_built and update_package_, format!("{}.failed", ..) of the failure
\* marker.
package_tar(p) ==
    FullPackageName_as_filename_component(p) \o <<".", "t", "a", "r">>
failed_marker(p) ==
    FullPackageName_as_filename_component(p)
        \o <<".", "f", "a", "i", "l", "e", "d">>

\* slice::sort with Ord for FullPackageName (a stable sort; here by
\* insertion).
RECURSIVE insert(_, _)
insert(sorted, x) ==
    IF sorted = <<>> THEN <<x>>
    ELSE IF FullPackageName_cmp(x, Head(sorted)) = "Less"
         THEN <<x>> \o sorted
         ELSE <<Head(sorted)>> \o insert(Tail(sorted), x)

RECURSIVE sort(_)
sort(names) ==
    IF names = <<>> THEN <<>>
    ELSE insert(sort(SubSeq(names, 1, Len(names) - 1)), names[Len(names)])

\* BTreeSet<FullPackageName>: a name that compares Equal to a member is not
\* added, and the members are iterated in ascending order.
RECURSIVE BTreeSet_from(_)
BTreeSet_from(names) ==
    IF names = <<>> THEN <<>>
    ELSE LET set == BTreeSet_from(SubSeq(names, 1, Len(names) - 1))
             x == names[Len(names)]
         IN  IF \E i \in 1..Len(set) : FullPackageName_cmp(x, set[i]) = "Equal"
             THEN set
             ELSE insert(set, x)

\* write_package_list_tar: the bytes of the entry w/packages.txt, one
\* unquoted name and a newline for each member of the set.
RECURSIVE write_package_list_tar(_)
write_package_list_tar(set) ==
    IF set = <<>> THEN <<>>
    ELSE FullPackageName_unquoted(Head(set)) \o <<"\n">>
             \o write_package_list_tar(Tail(set))

\* BufRead::lines: the text between the newlines, without them.
RECURSIVE lines(_)
lines(buf) ==
    IF buf = <<>> THEN <<>>
    ELSE LET nl == find(buf, "\n")
         IN  IF nl = 0 THEN <<buf>>
             ELSE <<SubSeq(buf, 1, nl - 1)>>
                      \o lines(SubSeq(buf, nl + 1, Len(buf)))

\* A file of an environment's work directory.
NoPackagesTxt == [present |-> FALSE, content |-> <<>>]
WorkFile(content) == [present |-> TRUE, content |-> content]

\* read_package_list_from_env: every line of packages.txt is parsed and the
\* names are collected into a set; the first line that does not parse is
\* the error.
read_package_list_from_env(file) ==
    LET parsed == [i \in 1..Len(lines(file.content)) |->
                       FullPackageName_from_str(lines(file.content)[i])]
    IN  IF \E i \in 1..Len(parsed) : ~parsed[i].ok
        THEN [ok |-> FALSE, set |-> <<>>]
        ELSE [ok |-> TRUE,
              set |-> BTreeSet_from([i \in 1..Len(parsed) |-> parsed[i].value[1]])]

\* ------------------------------------------------------------------------
\* Package lists of environments, and the name functions called on their own
\* ------------------------------------------------------------------------

\* At most MaxPackages package names are given on one command line.
MaxPackages == 2

\* The environments of the package lists.
UserEnvNames == {"alpha", "beta"}

\* What --packages is given on the command line: texts that parse.
\* "cubicle.c" names the Root package c.
CliArgs ==
    { <<"b">>, <<"b", ".", "a">>, <<"c", ".", "x">>,
      <<"c", "u", "b", "i", "c", "l", "e", ".", "c">>,
      <<"d", "e", "b", "i", "a", "n", ".", "a">> }

\* Option<packages>: None, or Some of the texts in command line order.
None == <<>>
Some(v) == <<v>>
CliPackages ==
    {None} \cup {Some(args) : args \in UNION {[1..n -> CliArgs] : n \in 0..MaxPackages}}

\* The names that a valid namespace and a valid name make.
PackageNames ==
    { n \in { <<"a">>, <<"b">>, <<"c">>, <<"b", ".", "a">>,
              <<"a", "/", "b">>, <<>> } :
        PackageName_from_str(n) = Parsed(n) }
PackageNamespaces ==
    { PackageNamespace_from_str(s).value[1] :
        s \in { t \in { <<"c", "u", "b", "i", "c", "l", "e">>,
                        <<"d", "e", "b", "i", "a", "n">>, <<"b">>, <<"c">>,
                        <<"b", ".", "a">> } :
                  PackageNamespace_from_str(t).ok } }
FullPackageNames ==
    {FullPackageName(ns, n) : ns \in PackageNamespaces, n \in PackageNames}

\* The texts given to FromStr for FullPackageName on its own.
Texts ==
    CliArgs \cup
    { <<>>, <<" ", "a", " ">>, <<"a">>, <<".", "a">>, <<"a", ".">>,
      <<"a", "/", "b">>, <<"a", " ", "b">>, <<"b", ".", "a", ".", "c">>,
      <<"b", "-", "c", ".", "a", "_", "b">>, <<"b", " ", ".", "a">>,
      <<"r", "o", "o", "t", ".", "a">>,
      <<"d", "e", "b", "i", "a", "n", ".", ".", "a">> }

\* The names of tests::full_package_name_ord in the order of the test, and
\* in the orders that start later in it and wrap around.
OrdTexts == << <<"d">>, <<"c", ".", "x">>, <<"c">>, <<"b">>, <<"b", ".", "a">> >>
SortInputs ==
    {[i \in DOMAIN OrdTexts |-> OrdTexts[((i + k - 1) % Len(OrdTexts)) + 1]] :
        k \in 0..(Len(OrdTexts) - 1)}

\* The last call of a name function: the names and texts it was given, and
\* what it returned.
NameCall(op, names, text, parsed, ord, sorted) ==
    [op |-> op, names |-> names, text |-> text, parsed |-> parsed,
     ord |-> ord, sorted |-> sorted]
NoNameCall == NameCall("", <<>>, <<>>, NotParsed(""), "", <<>>)

\* The files that a command run in an environment may leave in a directory.
Files == {"f", "g"}

\* A directory of the host: missing, or there with some files.
NoDir == [exists |-> FALSE, files |-> {}]
EmptyDir == [exists |-> TRUE, files |-> {}]

\* home_dirs/<name> and work_dirs/<name> of an environment.
NoDirectories == [home |-> NoDir, work |-> NoDir]

\* The last Bubblewrap call on the directories: the environment, what its
\* directories were before, and whether the call returned Ok.
DiskCall(op, e, before, ok) == [op |-> op, env |-> e, before |-> before, ok |-> ok]
NoDiskCall == DiskCall("", "", NoDirectories, FALSE)

\* The Host-User backend during reset: the account of the environment with
\* its directory ~/w, the archive <work_tars>/<env>-<secs>.tar, and where reset
\* is.  saved is ~/w as it was when reset was called.
NoArchive == [exists |-> FALSE, files |-> {}]
Archive(files) == [exists |-> TRUE, files |-> files]
UserAccount(pc_, live, w, work_tar, tar_status, saved, result_) ==
    [pc |-> pc_, live |-> live, w |-> w, work_tar |-> work_tar,
     tar_status |-> tar_status, saved |-> saved, result |-> result_]
NoAccount == UserAccount("idle", FALSE, NoDir, NoArchive, FALSE, NoDir, "")

\* The Docker backend's base image: the flag built_base of this process, the
\* LastTagTime of the image (<<>> when there is no image), the time of the
\* host in seconds since UNIX_EPOCH, whether build_base has returned Ok and
\* whether docker build has succeeded in this process, and the last call.
Hour == 60 * 60
UNIX_EPOCH == 0 * Hour
Started == 24 * Hour
MaxTicks == 4
NoBaseCall ==
    [op |-> "", flag |-> FALSE, returned_ok |-> FALSE, image |-> <<>>,
     now |-> Started, inspected |-> FALSE, invoked |-> FALSE, ok |-> FALSE]
NewDocker ==
    [built_base |-> FALSE, returned_ok |-> FALSE, built |-> FALSE,
     image |-> <<>>, now |-> Started, call |-> NoBaseCall]

\* The bytes of the files of one package in the package cache and of the
\* provides.tar in its builder environment, while update_package_ runs:
\* <<>> for a file that is not there, <<bytes>> for one that is.  copied is
\* what the build that is running has read from provides.tar.
Staging(pc_, test_, provides_, testing_tar, package_tar_, copied_, result_) ==
    [pc |-> pc_, test |-> test_, provides |-> provides_,
     testing_tar |-> testing_tar, package_tar |-> package_tar_,
     copied |-> copied_, result |-> result_]
NoStaging == Staging("idle", FALSE, <<>>, <<>>, <<>>, <<>>, "")

\* std::process::ExitStatus on Unix: the child has exited with a code, or a
\* signal has ended it.
Exited(code) == [kind |-> "exited", n |-> code]
Signaled(signal) == [kind |-> "signaled", n |-> signal]

\* The child that a run has waited for: the program, the status it ended
\* with, and how run returned ("Ok", "Err", or "panic" when an assertion
\* failed).
Child(program, status, returned_) ==
    [program |-> program, status |-> status, returned |-> returned_]
NoChild == Child("", Exited(0), "")

\* ------------------------------------------------------------------------
\* State
\* ------------------------------------------------------------------------

VARIABLES
    src,          \* which source tree the host has (index into Sources)
    clock,        \* the host's time
    srcMtime,     \* package name -> latest mtime under its source directory
    tar,          \* package -> <cache>/<name>.tar
    testing,      \* package -> <cache>/<name>.testing.tar
    failed,       \* package -> whether <cache>/<name>.failed exists
    pc,           \* where the running update_packages invocation is
    packages,     \* update_packages: the named packages
    conditions,   \* update_packages: [named, dependencies]
    now,          \* update_packages: SystemTime::now() at its start
    todo,         \* update_packages: the packages of this pass, in order
    later,        \* update_packages: the packages put off to the next pass
    start_todos,  \* update_packages: todo.len() at the start of the pass
    done,         \* update_packages: the packages marked done
    full_name,    \* the package being built (<<>> when none)
    tested,       \* update_package_: test_package has returned Ok
    result,       \* what the invocation returned
    warnings,     \* what the invocation passed to warn()
    log,          \* what the invocation did, in order (see Event)
    tar0,         \* tar as it was when the invocation started
    failed0,      \* failed as it was when the invocation started
    runner,       \* the configured Runner backend
    envs,         \* per environment name: the backend's storage and instance
    last,         \* the last Runner or orchestrator call and how it returned
    user_envs,    \* the environments created through new and not purged since
    pending,      \* the top-level command that is inside update_packages
    packages_txt, \* per user environment: its file w/packages.txt
    given,        \* per user environment: the packages last given to new or reset
    seeded,       \* per user environment: the packages last updated and seeded
    call,         \* the last call of a name function (see NameCall)
    dirs,         \* the package directories that scan_packages reads
    returned,     \* what scan_packages or transitive_depends returned last
    disk,         \* per user environment: its home and work directories
    disk_call,    \* the last Bubblewrap call on the directories (see DiskCall)
    user,         \* the Host-User account of an environment during reset
    docker,       \* the Docker backend's base image and built_base flag
    prev,         \* what is remembered of the last update_packages (see Remembered)
    staging,      \* the bytes of one package's files in the package cache (see Staging)
    child         \* the child process that the last run waited for (see Child)

envVars == <<runner, envs, last, user_envs, pending>>

nameVars == <<packages_txt, given, seeded, call>>

dependsVars == <<dirs, returned>>

diskVars == <<disk, disk_call>>

procVars == <<user, docker, prev, staging, child>>

ProcInit ==
    /\ user = NoAccount
    /\ docker = NewDocker
    /\ prev = <<>>
    /\ staging = NoStaging
    /\ child = NoChild

\* No directory of a user environment is there before the first call.
DiskInit ==
    /\ disk = [e \in UserEnvNames |-> NoDirectories]
    /\ disk_call = NoDiskCall

vars == <<src, clock, srcMtime, tar, testing, failed, pc, packages, conditions,
          now, todo, later, start_todos, done, full_name, tested, result,
          warnings, log, tar0, failed0, runner, envs, last, user_envs, pending,
          packages_txt, given, seeded, call, dirs, returned, disk, disk_call,
          user, docker, prev>>

NamesInit ==
    /\ packages_txt = [e \in UserEnvNames |-> NoPackagesTxt]
    /\ given = [e \in UserEnvNames |-> None]
    /\ seeded = [e \in UserEnvNames |-> None]
    /\ call = NoNameCall

specs == Scanned[src].specs
auto_update == Sources[src].auto_update

\* The packages that have files in the package cache.
Cacheable == {p \in Universe : p.ns.kind # "Debian"}

NoFile == [exists |-> FALSE, mtime |-> 0, data |-> 0, complete |-> FALSE]
\* A file written at time t by the invocation started at time d; complete
\* is FALSE when the copy that wrote it broke off.
File(t, d, complete) == [exists |-> TRUE, mtime |-> t, data |-> d, complete |-> complete]

\* ShouldPackageUpdate and the UpdatePackagesConditions the model calls
\* update_packages with: the one new_environment and reset_environment use
\* (IfStale for both), the two other uniform ones and a mixed one.
Modes == {"Always", "IfStale", "IfRequired"}
UpdatePackagesConditions(named, dependencies) ==
    [named |-> named, dependencies |-> dependencies]
Conditions ==
    {UpdatePackagesConditions(m, m) : m \in Modes}
        \cup {UpdatePackagesConditions("Always", "IfRequired")}

\* The modes RefreshSpec calls update_packages with.
RefreshConditions ==
    {UpdatePackagesConditions(m_, m_) : m_ \in {"Always", "IfStale"}}

Pending == NoError
Ok == [kind |-> "ok", msg |-> <<>>]

\* An entry of log: "build" (update_package is called for p), "built"
\* (update_package_ returned Ok), "failed" (update_package_ returned Err),
\* "marker" (a file operation of update_package on the marker of p or on the
\* cache directory failed), "done" (p is inserted into done).
Event(ev, p) == [ev |-> ev, p |-> p]

PackagesInit ==
    /\ src \in DOMAIN Sources
    /\ Scanned[src].err = NoError
    /\ clock = 0
    /\ srcMtime = [n \in DOMAIN Scanned[src].specs |-> 0]
    /\ tar = [p \in Cacheable |-> NoFile]
    /\ testing = [p \in Cacheable |-> NoFile]
    /\ failed = [p \in Cacheable |-> FALSE]
    /\ pc = "idle"
    /\ packages = {}
    /\ conditions = UpdatePackagesConditions("IfStale", "IfStale")
    /\ now = 0
    /\ todo = <<>>
    /\ later = <<>>
    /\ start_todos = 0
    /\ done = {}
    /\ full_name = <<>>
    /\ tested = FALSE
    /\ result = Pending
    /\ warnings = {}
    /\ log = <<>>
    /\ tar0 = tar
    /\ failed0 = failed

\* The package engine is explored with one backend and no environments: its
\* builds are summarised by their outcome (BuildPackage, TestPackage).
Init ==
    /\ PackagesInit
    /\ runner = "Bubblewrap"
    /\ envs = [e \in {} |-> FALSE]
    /\ last = <<>>
    /\ user_envs = {}
    /\ pending = <<>>
    /\ NamesInit
    /\ dirs = NoDirs
    /\ returned = NotReturned
    /\ DiskInit
    /\ ProcInit

\* ------------------------------------------------------------------------
\* Staleness
\* ------------------------------------------------------------------------

\* last_built: <<mtime>> of the cached artifact, <<>> when there is none.
last_built(name) ==
    IF name \in Cacheable /\ tar[name].exists THEN <<tar[name].mtime>> ELSE <<>>

\* A variant of StaleDeps that leaves the run-time dependencies out.
StaleDepsBuildOnly(spec) == spec.build_depends

\* The dependencies package_is_stale compares against: the immediate ones.
StaleDeps(spec) == spec.build_depends \cup spec.depends

\* A variant of package_is_stale for which a package without a cached
\* artifact is not stale.
package_is_stale_unbuilt(package_name, spec, at) ==
    LET lb == last_built(package_name)
        built == lb[1]
    IN /\ lb # <<>>
       /\ \/ /\ auto_update >= 0
             /\ (at < built \/ at - built > auto_update)
          \/ srcMtime[SpecKey(package_name)] > built
          \/ \E d \in StaleDeps(spec) :
                last_built(d) # <<>> /\ last_built(d)[1] > built

\* A variant of package_is_stale for which a dependency built at the same
\* time as the package is newer.
package_is_stale_not_strict(package_name, spec, at) ==
    LET lb == last_built(package_name)
        built == lb[1]
    IN \/ lb = <<>>
       \/ /\ auto_update >= 0
          /\ (at < built \/ at - built > auto_update)
       \/ srcMtime[SpecKey(package_name)] > built
       \/ \E d \in StaleDeps(spec) :
             last_built(d) # <<>> /\ last_built(d)[1] >= built

package_is_stale(package_name, spec, at) ==
    LET lb == last_built(package_name)
        built == lb[1]
    IN \/ lb = <<>>
       \/ /\ auto_update >= 0
          /\ (at < built \/ at - built > auto_update)
       \/ srcMtime[SpecKey(package_name)] > built
       \/ \E d \in StaleDeps(spec) :
             last_built(d) # <<>> /\ last_built(d)[1] > built

\* ------------------------------------------------------------------------
\* update_packages
\* ------------------------------------------------------------------------

\* The function returns: its locals are gone.
Return(res) ==
    /\ result' = res
    /\ pc' = "returned"
    /\ todo' = <<>>
    /\ later' = <<>>
    /\ start_todos' = 0
    /\ done' = {}
    /\ full_name' = <<>>
    /\ tested' = FALSE

\* update_packages up to the loop: todo is the build closure of the named
\* packages without the Debian ones, in BTreeSet order.
UpdatePackagesBefore(T, cond, bound) ==
    /\ pc = "idle"
    /\ clock < bound
    /\ clock' = clock + 1
    /\ now' = clock + 1
    /\ packages' = T
    /\ conditions' = cond
    /\ warnings' = {}
    /\ log' = <<>>
    /\ tar0' = tar
    /\ failed0' = failed
    /\ later' = <<>>
    /\ start_todos' = 0
    /\ done' = {}
    /\ full_name' = <<>>
    /\ tested' = FALSE
    /\ LET deps == transitive_depends(T, specs, TRUE)
       IN IF deps.err # NoError
          THEN /\ result' = deps.err
               /\ pc' = "returned"
               /\ todo' = <<>>
          ELSE /\ result' = Pending
               /\ pc' = "loop"
               /\ todo' = InOrder(ByDisplay, {p \in deps.visited : p.ns # NsDebian})
    /\ UNCHANGED <<src, srcMtime, tar, testing, failed>>

UpdatePackages(T, cond) == UpdatePackagesBefore(T, cond, MaxClock)

\* A variant of LoopHead in which later is not emptied for the new pass.
LoopHeadKeepingLater ==
    /\ pc = "loop"
    /\ IF Len(todo) = 0
       THEN /\ Return(Ok)
       ELSE /\ start_todos' = Len(todo)
            /\ pc' = "for"
            /\ UNCHANGED <<todo, later, done, full_name, tested, result>>
    /\ UNCHANGED <<src, clock, srcMtime, tar, testing, failed, packages, conditions,
                   now, warnings, log, tar0, failed0>>

\* The head of the loop: nothing left to do, or a new pass over todo.
LoopHead ==
    /\ pc = "loop"
    /\ IF Len(todo) = 0
       THEN /\ Return(Ok)
       ELSE /\ start_todos' = Len(todo)
            /\ later' = <<>>
            /\ pc' = "for"
            /\ UNCHANGED <<todo, done, full_name, tested, result>>
    /\ UNCHANGED <<src, clock, srcMtime, tar, testing, failed, packages, conditions,
                   now, warnings, log, tar0, failed0>>

\* A variant of deps_ready that looks at the run-time dependencies only.
deps_ready_depends_only(spec, finished) ==
    \A d \in spec.depends : d.ns = NsDebian \/ d \in finished

deps_ready(spec, finished) ==
    \A d \in spec.depends \cup spec.build_depends :
        d.ns = NsDebian \/ d \in finished

\* A variant of When with the two modes the wrong way round.
WhenSwapped(p) == IF p \in packages THEN conditions.dependencies ELSE conditions.named

\* The mode that applies to package p: named for the packages asked for.
When(p) == IF p \in packages THEN conditions.named ELSE conditions.dependencies

needs_build(p, spec) ==
    IF ~spec.update THEN FALSE
    ELSE CASE When(p) = "Always" -> TRUE
           [] When(p) = "IfStale" -> package_is_stale(p, spec, now)
           [] OTHER -> last_built(p) = <<>>

\* One iteration of the for loop over todo.
ForNext ==
    /\ pc = "for"
    /\ todo # <<>>
    /\ LET p == Head(todo)
       IN /\ IF SpecKey(p) \notin DOMAIN specs
             THEN /\ Return(Err("no_definition",
                                <<IF p.ns.kind = "Managed"
                                  THEN "could not find definition for package manager "
                                  ELSE "could not find definition for package ",
                                  "\"", SpecKey(p), "\"">>))
                  /\ UNCHANGED <<log>>
             ELSE IF p.ns.kind = "Managed" /\ ~specs[SpecKey(p)].package_manager
             THEN /\ Return(Err("not_manager",
                                <<"package ", "\"", SpecKey(p), "\"", " is not a package manager">>))
                  /\ UNCHANGED <<log>>
             ELSE LET spec == specs[SpecKey(p)]
                  IN /\ todo' = Tail(todo)
                     /\ UNCHANGED <<start_todos, result>>
                     /\ IF deps_ready(spec, done)
                        THEN IF needs_build(p, spec)
                             THEN /\ pc' = "build_package"
                                  /\ full_name' = <<p>>
                                  /\ tested' = FALSE
                                  /\ log' = Append(log, Event("build", p))
                                  /\ UNCHANGED <<done, later>>
                             ELSE /\ done' = done \cup {p}
                                  /\ log' = Append(log, Event("done", p))
                                  /\ UNCHANGED <<pc, full_name, tested, later>>
                        ELSE /\ later' = Append(later, p)
                             /\ UNCHANGED <<pc, full_name, tested, done, log>>
    /\ UNCHANGED <<src, clock, srcMtime, tar, testing, failed, packages, conditions,
                   now, warnings, tar0, failed0>>

\* A variant of UnsatisfiableMsg that also names the packages marked done.
UnsatisfiableMsgWithDone(names) ==
    <<"package dependencies are ", "unsatisfiable", " for: ">>
        \o JoinNames(InOrder(ByDisplay, {names[i] : i \in 1..Len(names)} \cup done))

UnsatisfiableMsg(names) ==
    <<"package dependencies are ", "unsatisfiable", " for: ">>
        \o JoinNames(InOrder(ByDisplay, {names[i] : i \in 1..Len(names)}))

\* A variant of EndPass that goes on to the next pass without looking at
\* what the pass has done.
EndPassUnchecked ==
    /\ pc = "for"
    /\ todo = <<>>
    /\ todo' = later
    /\ pc' = "loop"
    /\ UNCHANGED <<later, start_todos, done, full_name, tested, result>>
    /\ UNCHANGED <<src, clock, srcMtime, tar, testing, failed, packages, conditions,
                   now, warnings, log, tar0, failed0>>

\* The end of a pass: no progress is an error, else the next pass.
EndPass ==
    /\ pc = "for"
    /\ todo = <<>>
    /\ IF Len(later) = start_todos
       THEN Return(Err("unsatisfiable", UnsatisfiableMsg(later)))
       ELSE /\ todo' = later
            /\ pc' = "loop"
            /\ UNCHANGED <<later, start_todos, done, full_name, tested, result>>
    /\ UNCHANGED <<src, clock, srcMtime, tar, testing, failed, packages, conditions,
                   now, warnings, log, tar0, failed0>>

\* ------------------------------------------------------------------------
\* update_package and update_package_
\* ------------------------------------------------------------------------

\* The package being built and the spec it is built from.
Building == full_name[1]
BuildingSpec == specs[SpecKey(Building)]

UpdateError(p) == Err("update", <<"failed to update package: ">> \o Display(p))

\* done.insert(full_name) after events evs, and on to the next package.
MarkDone(p, evs) ==
    /\ done' = done \cup {p}
    /\ log' = log \o evs \o <<Event("done", p)>>
    /\ pc' = "for"
    /\ full_name' = <<>>
    /\ tested' = FALSE
    /\ UNCHANGED <<todo, later, start_todos, result>>

\* A variant of UpdateFailed that never uses the stale artifact.
UpdateFailedNoStale(p, dir_ok, marker_ok, exists_ok) ==
    LET evs == <<Event("failed", p)>>
                  \o (IF dir_ok /\ marker_ok THEN <<>> ELSE <<Event("marker", p)>>)
    IN /\ failed' = [failed EXCEPT ![p] = IF dir_ok /\ marker_ok THEN TRUE ELSE @]
       /\ UNCHANGED warnings
       /\ Return(UpdateError(p))
       /\ log' = log \o evs

\* A variant of UpdateFailed that never creates the marker.
UpdateFailedNoMarker(p, dir_ok, marker_ok, exists_ok) ==
    LET evs == <<Event("failed", p)>>
    IN /\ UNCHANGED failed
       /\ IF tar[p].exists
          THEN /\ warnings' = warnings \cup {<<"using stale version of ", p>>}
               /\ MarkDone(p, evs)
          ELSE /\ UNCHANGED warnings
               /\ Return(UpdateError(p))
               /\ log' = log \o evs

\* update_package, Err(update_error) arm: the cache directory is made sure
\* of (dir_ok: else that error is returned), the marker is created
\* (marker_ok: else a warning), the cached artifact is looked for (exists_ok:
\* else a warning and no stale use), and the stale artifact is used or the
\* update error returned.
UpdateFailed(p, dir_ok, marker_ok, exists_ok) ==
    LET evs == <<Event("failed", p)>>
                  \o (IF dir_ok /\ marker_ok THEN <<>> ELSE <<Event("marker", p)>>)
    IN IF ~dir_ok
       THEN /\ Return(Err("create_dir", <<"failed to create directory ", "package_cache">>))
            /\ log' = log \o evs
            /\ UNCHANGED <<failed, warnings>>
       ELSE LET use_stale == exists_ok /\ tar[p].exists
                warned == (IF marker_ok THEN {} ELSE {<<"failed to create file ", p>>})
                            \cup (IF exists_ok THEN {} ELSE {<<"error while checking if exists ", p>>})
            IN /\ failed' = [failed EXCEPT ![p] = IF marker_ok THEN TRUE ELSE @]
               /\ IF use_stale
                  THEN /\ warnings' = warnings \cup warned \cup {<<"using stale version of ", p>>}
                       /\ MarkDone(p, evs)
                  ELSE /\ warnings' = warnings \cup warned
                       /\ Return(UpdateError(p))
                       /\ log' = log \o evs

\* Any of the ways the Err arm of update_package can go.
UpdateFailedSomehow(p) ==
    \E dir_ok, marker_ok, exists_ok \in BOOLEAN :
        /\ (~dir_ok => marker_ok /\ exists_ok)
        /\ UpdateFailed(p, dir_ok, marker_ok, exists_ok)

\* update_package_: build_package resets or creates the builder environment
\* and runs the build in it.
BuildPackage ==
    /\ pc = "build_package"
    /\ \/ /\ pc' = "copy_out"
          /\ UNCHANGED <<todo, later, start_todos, done, full_name, tested, result,
                         warnings, log, failed>>
       \/ UpdateFailedSomehow(Building)
    /\ UNCHANGED <<src, clock, srcMtime, tar, testing, packages, conditions, now,
                   tar0, failed0>>

\* update_package_: <name>.testing.tar is opened (created if missing) and
\* provides.tar is copied into it.
CopyOut ==
    /\ pc = "copy_out"
    /\ \/ \* the file cannot be opened
          /\ UNCHANGED testing
          /\ UpdateFailedSomehow(Building)
       \/ \* the copy breaks off
          /\ testing' = [testing EXCEPT ![Building] = File(clock, now, FALSE)]
          /\ UpdateFailedSomehow(Building)
       \/ /\ testing' = [testing EXCEPT ![Building] = File(clock, now, TRUE)]
          /\ pc' = IF BuildingSpec.test THEN "test_package" ELSE "rename"
          /\ UNCHANGED <<todo, later, start_todos, done, full_name, tested, result,
                         warnings, log, failed>>
    /\ UNCHANGED <<src, clock, srcMtime, tar, packages, conditions, now, tar0, failed0>>

\* A variant of TestPackage that goes on to the rename whatever the test
\* returned.
TestPackageIgnored ==
    /\ pc = "test_package"
    /\ pc' = "rename"
    /\ tested' \in BOOLEAN
    /\ UNCHANGED <<todo, later, start_todos, done, full_name, result,
                   warnings, log, failed>>
    /\ UNCHANGED <<src, clock, srcMtime, tar, testing, packages, conditions, now,
                   tar0, failed0>>

\* update_package_: test_package, for a package with a test.sh.
TestPackage ==
    /\ pc = "test_package"
    /\ \/ /\ pc' = "rename"
          /\ tested' = TRUE
          /\ UNCHANGED <<todo, later, start_todos, done, full_name, result,
                         warnings, log, failed>>
       \/ UpdateFailedSomehow(Building)
    /\ UNCHANGED <<src, clock, srcMtime, tar, testing, packages, conditions, now,
                   tar0, failed0>>

\* A variant of UpdateSucceeded that leaves the marker where it is.
UpdateSucceededKeepingMarker(p, removed) ==
    /\ UNCHANGED <<warnings, failed>>
    /\ MarkDone(p, <<Event("built", p)>>)

\* update_package, Ok arm: the marker is removed; an error other than
\* NotFound (removed = FALSE) is returned.
UpdateSucceeded(p, removed) ==
    /\ UNCHANGED warnings
    /\ IF removed
       THEN /\ failed' = [failed EXCEPT ![p] = FALSE]
            /\ MarkDone(p, <<Event("built", p)>>)
       ELSE /\ Return(Err("remove_marker", <<"failed to remove file ", "failed_marker">>))
            /\ log' = log \o <<Event("built", p), Event("marker", p)>>
            /\ UNCHANGED <<failed>>

\* update_package_: <name>.testing.tar is renamed to <name>.tar.
Rename ==
    /\ pc = "rename"
    /\ \/ /\ tar' = [tar EXCEPT ![Building] = testing[Building]]
          /\ testing' = [testing EXCEPT ![Building] = NoFile]
          /\ \E removed \in BOOLEAN : UpdateSucceeded(Building, removed)
       \/ /\ UNCHANGED <<tar, testing>>
          /\ UpdateFailedSomehow(Building)
    /\ UNCHANGED <<src, clock, srcMtime, packages, conditions, now, tar0, failed0>>

\* ------------------------------------------------------------------------
\* The host between invocations
\* ------------------------------------------------------------------------

\* The invocation is over; what it returned and reported is forgotten.
Exit ==
    /\ pc = "returned"
    /\ pc' = "idle"
    /\ result' = Pending
    /\ packages' = {}
    /\ conditions' = UpdatePackagesConditions("IfStale", "IfStale")
    /\ warnings' = {}
    /\ log' = <<>>
    /\ tar0' = tar
    /\ failed0' = failed
    /\ UNCHANGED <<src, clock, srcMtime, tar, testing, failed, now, todo, later,
                   start_todos, done, full_name, tested>>

\* A file under the source directory of package n is edited, after the
\* last invocation and no later than the next one starts.  Only an edit of a
\* package with an update.sh and a cached artifact is ever looked at.
TouchSourceBefore(n, bound) ==
    /\ pc = "idle"
    /\ clock < bound
    /\ srcMtime[n] <= clock
    /\ specs[n].update
    /\ \E p \in Cacheable : SpecKey(p) = n /\ tar[p].exists
    /\ srcMtime' = [srcMtime EXCEPT ![n] = clock + 1]
    /\ UNCHANGED <<src, clock, tar, testing, failed, pc, packages, conditions, now,
                   todo, later, start_todos, done, full_name, tested, result,
                   warnings, log, tar0, failed0>>

TouchSource(n) == TouchSourceBefore(n, MaxClock)

\* The packages a caller may name: those the source tree mentions.
Mentioned ==
    {Root(n) : n \in DOMAIN specs}
        \cup UNION {specs[n].depends \cup specs[n].build_depends : n \in DOMAIN specs}

Next ==
    \/ (\E p \in Mentioned, cond \in Conditions : UpdatePackages({p}, cond))
       /\ UNCHANGED <<envVars, nameVars, dependsVars, diskVars, procVars>>
    \/ LoopHead /\ UNCHANGED <<envVars, nameVars, dependsVars, diskVars, procVars>>
    \/ ForNext /\ UNCHANGED <<envVars, nameVars, dependsVars, diskVars, procVars>>
    \/ EndPass /\ UNCHANGED <<envVars, nameVars, dependsVars, diskVars, procVars>>
    \/ BuildPackage /\ UNCHANGED <<envVars, nameVars, dependsVars, diskVars, procVars>>
    \/ CopyOut /\ UNCHANGED <<envVars, nameVars, dependsVars, diskVars, procVars>>
    \/ TestPackage /\ UNCHANGED <<envVars, nameVars, dependsVars, diskVars, procVars>>
    \/ Rename /\ UNCHANGED <<envVars, nameVars, dependsVars, diskVars, procVars>>
    \/ Exit /\ UNCHANGED <<envVars, nameVars, dependsVars, diskVars, procVars>>
    \/ (\E n \in DOMAIN specs : TouchSource(n)) /\ UNCHANGED <<envVars, nameVars, dependsVars, diskVars, procVars>>

Spec == Init /\ [][Next]_vars

\* ------------------------------------------------------------------------
\* Properties of update_packages
\* ------------------------------------------------------------------------

\* The build closure of the running invocation without its Debian packages.
Closure ==
    {p \in transitive_depends(packages, specs, TRUE).visited : p.ns # NsDebian}

\* How often event ev of package p is in log, and whether it is at all.
Count(ev, p) == Cardinality({i \in 1..Len(log) : log[i] = Event(ev, p)})
Happened(ev, p) == \E i \in 1..Len(log) : log[i] = Event(ev, p)

\* The invocation has returned Ok(()).
Succeeded == pc = "returned" /\ result = Ok

IfStaleBoth == conditions = UpdatePackagesConditions("IfStale", "IfStale")

\* Package p is built by an update.sh.
HasUpdate(p) == SpecKey(p) \in DOMAIN specs /\ specs[SpecKey(p)].update

\* The immediate dependencies of p that update_packages waits for.
Deps(p) ==
    {d \in specs[SpecKey(p)].depends \cup specs[SpecKey(p)].build_depends :
        d.ns # NsDebian}

\* Everything p depends on, directly or not.
TransitiveDeps(p) == transitive_depends({p}, specs, TRUE).visited \ {p}

StaleWarning(p) == <<"using stale version of ", p>>

\* A file operation of update_package's error path for p failed: on the
\* cache directory or the marker, or the look for the cached artifact.
FileFault(p) ==
    \/ Happened("marker", p)
    \/ <<"error while checking if exists ", p>> \in warnings

\* C1 as the specification states it: whenever update_packages({p}, IfStale,
\* IfStale) returns success for a non-Debian p, <p>.tar exists and
\* <p>.failed does not.
C1_AsStated ==
    \A p \in Cacheable :
        (Succeeded /\ packages = {p} /\ IfStaleBoth)
            => (tar[p].exists /\ ~failed[p])

\* C1: whenever update_packages({p}, IfStale, IfStale) returns success for a
\* non-Debian p that has an update.sh, <p>.tar exists, and <p>.failed does
\* not exist if the invocation built p successfully.
C1_TarAfterSuccess ==
    \A p \in Cacheable :
        (Succeeded /\ packages = {p} /\ IfStaleBoth /\ HasUpdate(p))
            => /\ tar[p].exists
               /\ Happened("built", p) => ~failed[p]

\* An IfStale invocation has built a package whose last build had failed.
C1_Witness ==
    \E p \in Cacheable :
        /\ Succeeded /\ packages = {p} /\ IfStaleBoth /\ HasUpdate(p)
        /\ Happened("built", p)
        /\ failed0[p] /\ ~tar0[p].exists
        /\ tar[p].exists /\ ~failed[p]

\* C2: within one invocation, when the build of B starts, every non-Debian
\* package among the immediate depends and build_depends of B has been
\* marked done before.
C2_DependenciesFirst ==
    \A i \in 1..Len(log) :
        log[i].ev = "build"
            => \A d \in Deps(log[i].p) :
                  \E j \in 1..(i - 1) : log[j] = Event("done", d)

\* The build of a package has started after a dependency of it was built
\* and marked done in the same invocation.
C2_Witness ==
    \E i, j, k \in 1..Len(log) :
        /\ k < j /\ j < i
        /\ log[i].ev = "build"
        /\ log[k].ev = "built"
        /\ log[k].p \in Deps(log[i].p)
        /\ log[j] = Event("done", log[k].p)

\* C3: within one invocation update_package is called at most once for each
\* package, and when the invocation returns success every non-Debian
\* package of the closure has been marked done exactly once.
C3_ExactlyOnce ==
    /\ \A p \in Universe : Count("build", p) <= 1
    /\ Succeeded => \A p \in Closure : Count("done", p) = 1

\* A successful invocation over a closure of three packages that has built
\* two of them.
C3_Witness ==
    /\ Succeeded
    /\ Cardinality(Closure) >= 3
    /\ Cardinality({i \in 1..Len(log) : log[i].ev = "build"}) >= 2
    /\ \A p \in Closure : Count("done", p) = 1

NeedsMissing(x) ==
    /\ x \in DOMAIN specs
    /\ Root("missing") \in specs[x].depends \cup specs[x].build_depends

\* C6 as the specification states it: when X depends on the Root package
\* "missing" that has no definition, update_packages({X}, IfStale) returns an
\* error whose message contains "unsatisfiable" and X.
C6_AsStated ==
    \A x \in RootNames :
        (pc = "returned" /\ packages = {Root(x)} /\ IfStaleBoth /\ NeedsMissing(x))
            => /\ result # Ok
               /\ Contains(result.msg, "unsatisfiable")
               /\ Contains(result.msg, x)

\* C6: when X depends on the Root package "missing" that has no definition
\* (and every dependency visited before it resolves), update_packages({X},
\* IfStale) returns the error of transitive_depends, whose message names
\* "missing" and X and does not contain "unsatisfiable".
C6_MissingDefinition ==
    \A x \in RootNames :
        (pc = "returned" /\ packages = {Root(x)} /\ IfStaleBoth /\ NeedsMissing(x))
            => /\ result.kind = "not_found"
               /\ ContainsSeq(result.msg,
                              <<"could not find package definition for ">>
                                  \o Display(Root("missing")))
               /\ ContainsSeq(result.msg, <<", needed by ">> \o Display(Root(x)))
               /\ ~Contains(result.msg, "unsatisfiable")
               /\ log = <<>>

\* An IfStale invocation for a package that needs "missing" has returned.
C6_Witness ==
    \E x \in RootNames :
        /\ pc = "returned" /\ packages = {Root(x)} /\ IfStaleBoth /\ NeedsMissing(x)
        /\ result.kind = "not_found"
        /\ Contains(result.msg, x)

C8_MarkerTracksLastAttempt ==
    \A p \in Cacheable :
        ~Happened("marker", p)
            => failed[p] = (IF Happened("failed", p) THEN TRUE
                            ELSE IF Happened("built", p) THEN FALSE
                            ELSE failed0[p])

\* One invocation left the marker of a package whose build failed and a
\* later one has built the package and removed it.
C8_Witness ==
    \E p \in Cacheable :
        /\ ~Happened("marker", p)
        /\ failed0[p]
        /\ Happened("built", p)
        /\ ~failed[p]

\* C9 as the specification states it: after a successful invocation, for
\* a, b of the closure with b in depends(a) and both with an artifact,
\* mtime(b.tar) <= mtime(a.tar).
C9_AsStated ==
    Succeeded
        => \A a, b \in Closure :
              (b \in specs[SpecKey(a)].depends /\ tar[a].exists /\ tar[b].exists)
                  => tar[b].mtime <= tar[a].mtime

\* C9: after a successful invocation, for a, b of the closure with b in
\* depends(a) and both with an artifact, mtime(b.tar) <= mtime(a.tar),
\* provided the mode that applies to a is not IfRequired and the invocation
\* did not fall back to the stale artifact of a.
C9_DependencyNotNewer ==
    Succeeded
        => \A a, b \in Closure :
              (b \in specs[SpecKey(a)].depends /\ tar[a].exists /\ tar[b].exists
                  /\ When(a) # "IfRequired" /\ ~Happened("failed", a))
                  => tar[b].mtime <= tar[a].mtime

\* An IfStale invocation has rebuilt a dependency and then the package that
\* depends on it.
C9_Witness ==
    /\ Succeeded
    /\ \E a, b \in Closure :
          /\ b \in specs[SpecKey(a)].depends
          /\ When(a) = "IfStale" /\ When(b) = "IfStale"
          /\ tar0[a].exists /\ tar0[b].exists
          /\ tar[b] # tar0[b] /\ tar[a] # tar0[a]
          /\ tar[b].mtime <= tar[a].mtime

\* C10 as the specification states it: a package whose artifact is older
\* than the artifact of any of its transitive dependencies is stale, so under
\* IfStale it is rebuilt: an IfStale package with an update.sh that the
\* invocation has marked done without building it has no transitive
\* dependency with a newer artifact.
C10_AsStated ==
    \A a \in Cacheable :
        (Happened("done", a) /\ ~Happened("build", a)
            /\ HasUpdate(a) /\ When(a) = "IfStale")
            => \A d \in TransitiveDeps(a) \cap Cacheable :
                  tar[d].exists => tar[d].mtime <= tar[a].mtime

Backends == {"Bubblewrap", "DockerBindMounts", "DockerVolumes", "User"}

EnvironmentExists == {"NoEnvironment", "PartiallyExists", "FullyExists"}

RunnerCommand == {"Interactive", "Init", "Exec"}

\* EnvironmentName::for_builder_package: the builder environment of a package.
for_builder_package(package) == "package-" \o package

\* The test environment of a package, named after its builder environment.
test_name(package) == "test-" \o for_builder_package(package)

\* The environment names in play: the builder and the test environment name
\* of package "a". EnvironmentName::from_str accepts both as names chosen by
\* the user (ASCII alphanumerics, '-' and '_'). Environments with other names
\* are touched by the user's commands only and do not interact with these.
EnvNames == {for_builder_package("a"), test_name("a")}

\* What a backend holds for one environment name. home and work are the two
\* storage areas (directories, named volumes, or the account's home directory
\* and ~/w); live is the Docker container, or the account in /etc/passwd on
\* the User backend. Bubblewrap has no live instances.
EnvState == [home : BOOLEAN, work : BOOLEAN, live : BOOLEAN]

Absent == [home |-> FALSE, work |-> FALSE, live |-> FALSE]

\* The external command or system call that fails during a backend call.
Faults == {"none", "stop", "rm_home", "rm_work", "mk_home", "mk_work",
           "adduser", "deluser", "tar", "spawn", "init", "command"}

\* The process run inside the environment exits with a non-zero status.
ExitStatusError(cmd, fault) ==
    \/ cmd = "Init" /\ fault = "init"
    \/ cmd # "Init" /\ fault = "command"

\* How a backend call returns: Ok(()) or Err, and what it left behind.
Done(ok, st) == [ok |-> ok, st |-> st]

\* ---- Bubblewrap ----

\* Bubblewrap_create, without the work directory.
Bubblewrap_create_home_only(s, fault) ==
    IF s.home \/ fault = "mk_home" THEN Done(FALSE, s)
    ELSE Done(TRUE, [s EXCEPT !.home = TRUE])

Bubblewrap_create(s, fault) ==
    IF s.home \/ fault = "mk_home" THEN Done(FALSE, s)
    ELSE IF s.work \/ fault = "mk_work"
         THEN Done(FALSE, [s EXCEPT !.home = TRUE])
         ELSE Done(TRUE, [s EXCEPT !.home = TRUE, !.work = TRUE])

Bubblewrap_exists(s) ==
    IF s.home /\ s.work THEN "FullyExists"
    ELSE IF s.home \/ s.work THEN "PartiallyExists"
    ELSE "NoEnvironment"

Bubblewrap_stop(s, fault) == Done(TRUE, s)

\* Bubblewrap_list, reading home_dirs only.
Bubblewrap_list_home_dirs(E) == {e \in DOMAIN E : E[e].home}

Bubblewrap_list(E) == {e \in DOMAIN E : E[e].home} \cup {e \in DOMAIN E : E[e].work}

Bubblewrap_reset(s, fault) ==
    IF fault = "rm_home" THEN Done(FALSE, s)
    ELSE IF fault = "mk_home" THEN Done(FALSE, [s EXCEPT !.home = FALSE])
    ELSE IF fault = "mk_work" THEN Done(FALSE, [s EXCEPT !.home = TRUE])
    ELSE Done(TRUE, [s EXCEPT !.home = TRUE, !.work = TRUE])

Bubblewrap_purge(s, fault) ==
    IF fault = "rm_home" THEN Done(FALSE, s)
    ELSE IF fault = "rm_work" THEN Done(FALSE, [s EXCEPT !.home = FALSE])
    ELSE Done(TRUE, [s EXCEPT !.home = FALSE, !.work = FALSE])

\* bwrap binds the two host directories and fails when one is missing.
Bubblewrap_run(s, cmd, fault) ==
    Done(s.home /\ s.work /\ ~ExitStatusError(cmd, fault), s)

\* ---- Docker ----

is_container(s) == s.live

ensure_volume_exists(s, area) == [s EXCEPT ![area] = TRUE]

ensure_no_volume(s, area) == [s EXCEPT ![area] = FALSE]

Docker_create(volumes, s, fault) ==
    IF is_container(s) THEN Done(FALSE, s)
    ELSE IF ~volumes
    THEN IF s.home \/ fault = "mk_home" THEN Done(FALSE, s)
         ELSE IF s.work \/ fault = "mk_work"
              THEN Done(FALSE, [s EXCEPT !.home = TRUE])
              ELSE Done(TRUE, [s EXCEPT !.home = TRUE, !.work = TRUE])
    ELSE IF fault = "mk_home" THEN Done(FALSE, s)
         ELSE IF fault = "mk_work"
              THEN Done(FALSE, ensure_volume_exists(s, "home"))
              ELSE Done(TRUE, ensure_volume_exists(ensure_volume_exists(s, "home"), "work"))

\* Docker_exists, forgetting the container.
Docker_exists_storage_only(s) ==
    IF s.home /\ s.work THEN "FullyExists"
    ELSE IF s.home \/ s.work THEN "PartiallyExists"
    ELSE "NoEnvironment"

Docker_exists(s) ==
    IF s.home /\ s.work THEN "FullyExists"
    ELSE IF is_container(s) \/ s.home \/ s.work THEN "PartiallyExists"
    ELSE "NoEnvironment"

Docker_stop(s, fault) ==
    IF is_container(s)
    THEN IF fault = "stop" THEN Done(FALSE, s)
         ELSE Done(TRUE, [s EXCEPT !.live = FALSE])
    ELSE Done(TRUE, s)

ps(E) == {e \in DOMAIN E : E[e].live}

Docker_list(E) ==
    ps(E) \cup {e \in DOMAIN E : E[e].home} \cup {e \in DOMAIN E : E[e].work}

Docker_reset(s, fault) ==
    LET stopped == Docker_stop(s, fault)
    IN  IF ~stopped.ok THEN stopped
        ELSE IF fault = "rm_home" THEN Done(FALSE, stopped.st)
        ELSE IF fault = "mk_home"
             THEN Done(FALSE, ensure_no_volume(stopped.st, "home"))
             ELSE Done(TRUE, ensure_volume_exists(stopped.st, "home"))

\* Docker_purge, leaving the container alone.
Docker_purge_without_stop(s, fault) ==
    IF fault = "rm_home" THEN Done(FALSE, s)
    ELSE IF fault = "rm_work" THEN Done(FALSE, ensure_no_volume(s, "home"))
    ELSE Done(TRUE, ensure_no_volume(ensure_no_volume(s, "home"), "work"))

Docker_purge(s, fault) ==
    LET stopped == Docker_stop(s, fault)
    IN  IF ~stopped.ok THEN stopped
        ELSE IF fault = "rm_home" THEN Done(FALSE, stopped.st)
        ELSE IF fault = "rm_work"
             THEN Done(FALSE, ensure_no_volume(stopped.st, "home"))
             ELSE Done(TRUE, ensure_no_volume(ensure_no_volume(stopped.st, "home"), "work"))

\* docker run --detach: a bind mount needs its source directory, a volume
\* mount creates a missing volume.
spawn(volumes, s, fault) ==
    IF fault = "spawn" \/ (~volumes /\ ~(s.home /\ s.work)) THEN Done(FALSE, s)
    ELSE Done(TRUE, [home |-> TRUE, work |-> TRUE, live |-> TRUE])

Docker_run(volumes, s, cmd, fault) ==
    LET spawned == IF is_container(s) THEN Done(TRUE, s) ELSE spawn(volumes, s, fault)
    IN  IF ~spawned.ok THEN spawned
        ELSE Done(~ExitStatusError(cmd, fault), spawned.st)

\* ---- User ----

\* sudo --user <username> -- true succeeds for an account that exists.
user_exists(s) == s.live

\* adduser makes the account and its home directory; mkdir w then makes ~/w.
create_user(s, fault) ==
    IF s.live \/ fault = "adduser" THEN Done(FALSE, s)
    ELSE IF s.work \/ fault = "mk_work"
         THEN Done(FALSE, [s EXCEPT !.live = TRUE, !.home = TRUE])
         ELSE Done(TRUE, [home |-> TRUE, work |-> TRUE, live |-> TRUE])

User_create(s, fault) == create_user(s, fault)

User_list(E) == {e \in DOMAIN E : E[e].live}

User_exists(s) ==
    IF ~s.live THEN "NoEnvironment"
    ELSE IF user_exists(s) THEN "FullyExists"
    ELSE "PartiallyExists"

User_stop(s, fault) == Done(TRUE, s)

\* deluser --remove-home removes the account with its home directory.
User_purge(s, fault) ==
    IF ~s.live THEN Done(TRUE, s)
    ELSE IF fault = "deluser" THEN Done(FALSE, s)
    ELSE Done(TRUE, Absent)

\* Interactive and Exec commands start with "cd w"; Init does not.
User_run(s, cmd, fault) ==
    Done(s.live /\ (cmd = "Init" \/ s.work) /\ ~ExitStatusError(cmd, fault), s)

\* Saves ~/w to a tar file, purges, creates the user again and restores.
User_reset(s, fault) ==
    IF ~s.live \/ ~s.work \/ fault = "tar" THEN Done(FALSE, s)
    ELSE LET purged == User_purge(s, fault)
             created == create_user(purged.st, fault)
         IN  IF ~purged.ok THEN purged
             ELSE IF ~created.ok THEN created
             ELSE User_run(created.st, "Init", fault)

\* ---- The Runner trait, dispatched on the configured backend ----

create(s, fault) ==
    CASE runner = "Bubblewrap" -> Bubblewrap_create(s, fault)
      [] runner = "DockerBindMounts" -> Docker_create(FALSE, s, fault)
      [] runner = "DockerVolumes" -> Docker_create(TRUE, s, fault)
      [] runner = "User" -> User_create(s, fault)

exists(s) ==
    CASE runner = "Bubblewrap" -> Bubblewrap_exists(s)
      [] runner \in {"DockerBindMounts", "DockerVolumes"} -> Docker_exists(s)
      [] runner = "User" -> User_exists(s)

stop(s, fault) ==
    CASE runner = "Bubblewrap" -> Bubblewrap_stop(s, fault)
      [] runner \in {"DockerBindMounts", "DockerVolumes"} -> Docker_stop(s, fault)
      [] runner = "User" -> User_stop(s, fault)

list ==
    CASE runner = "Bubblewrap" -> Bubblewrap_list(envs)
      [] runner \in {"DockerBindMounts", "DockerVolumes"} -> Docker_list(envs)
      [] runner = "User" -> User_list(envs)

reset(s, fault) ==
    CASE runner = "Bubblewrap" -> Bubblewrap_reset(s, fault)
      [] runner \in {"DockerBindMounts", "DockerVolumes"} -> Docker_reset(s, fault)
      [] runner = "User" -> User_reset(s, fault)

purge(s, fault) ==
    CASE runner = "Bubblewrap" -> Bubblewrap_purge(s, fault)
      [] runner \in {"DockerBindMounts", "DockerVolumes"} -> Docker_purge(s, fault)
      [] runner = "User" -> User_purge(s, fault)

run(s, cmd, fault) ==
    CASE runner = "Bubblewrap" -> Bubblewrap_run(s, cmd, fault)
      [] runner = "DockerBindMounts" -> Docker_run(FALSE, s, cmd, fault)
      [] runner = "DockerVolumes" -> Docker_run(TRUE, s, cmd, fault)
      [] runner = "User" -> User_run(s, cmd, fault)

\* ------------------------------------------------------------------------
\* The Runner trait called directly, on any environment in any state
\* ------------------------------------------------------------------------

pkgVars == <<src, clock, srcMtime, tar, testing, failed, pc, packages, conditions,
             now, todo, later, start_todos, done, full_name, tested, result,
             warnings, log, tar0, failed0>>

\* A backend operation that was reached, with what exists() said just before.
Reach(op, s) == <<op, exists(s)>>

\* How a call returns: Ok or Err, what it left behind, and which backend
\* operations it reached.
Checked(ok, st, reached) ==
    [ok |-> ok, st |-> st, reached |-> reached, err |-> IF ok THEN "" ELSE "error"]

\* An orchestrator flow returns Err(anyhow!(msg)) before it calls the Runner.
Refused(st, msg) == [ok |-> FALSE, st |-> st, reached |-> {}, err |-> msg]

Direct(op, s, r) == Checked(r.ok, r.st, {Reach(op, s)})

NoCall ==
    [op |-> "none", env |-> "none", by |-> "none", pre |-> "NoEnvironment",
     ok |-> TRUE, reached |-> {}, err |-> ""]

Idle == [op |-> "idle", env |-> "none"]

\* A call of operation op on environment e on behalf of by returned r.
Called(op, e, by, r) ==
    /\ envs' = [envs EXCEPT ![e] = r.st]
    /\ last' = [op |-> op, env |-> e, by |-> by, pre |-> exists(envs[e]),
                ok |-> r.ok, reached |-> r.reached, err |-> r.err]

EnvironmentsInit ==
    /\ PackagesInit
    /\ src = 1
    /\ runner \in Backends
    /\ envs = [e \in EnvNames |-> Absent]
    /\ last = NoCall
    /\ user_envs = {}
    /\ pending = Idle
    /\ NamesInit
    /\ dirs = NoDirs
    /\ returned = NotReturned
    /\ DiskInit
    /\ ProcInit

Create(e, fault) ==
    /\ Called("create", e, "runner", Direct("create", envs[e], create(envs[e], fault)))
    /\ UNCHANGED <<pkgVars, nameVars, dependsVars, diskVars, procVars, runner, user_envs, pending>>

Reset(e, fault) ==
    /\ Called("reset", e, "runner", Direct("reset", envs[e], reset(envs[e], fault)))
    /\ UNCHANGED <<pkgVars, nameVars, dependsVars, diskVars, procVars, runner, user_envs, pending>>

Purge(e, fault) ==
    /\ Called("purge", e, "runner", Direct("purge", envs[e], purge(envs[e], fault)))
    /\ UNCHANGED <<pkgVars, nameVars, dependsVars, diskVars, procVars, runner, user_envs, pending>>

Stop(e, fault) ==
    /\ Called("stop", e, "runner", Direct("stop", envs[e], stop(envs[e], fault)))
    /\ UNCHANGED <<pkgVars, nameVars, dependsVars, diskVars, procVars, runner, user_envs, pending>>

Run(e, cmd, fault) ==
    /\ Called("run", e, "runner", Direct("run", envs[e], run(envs[e], cmd, fault)))
    /\ UNCHANGED <<pkgVars, nameVars, dependsVars, diskVars, procVars, runner, user_envs, pending>>

RunnerNext ==
    \/ \E e \in EnvNames, fault \in Faults : Create(e, fault)
    \/ \E e \in EnvNames, fault \in Faults : Reset(e, fault)
    \/ \E e \in EnvNames, fault \in Faults : Purge(e, fault)
    \/ \E e \in EnvNames, fault \in Faults : Stop(e, fault)
    \/ \E e \in EnvNames, cmd \in RunnerCommand, fault \in Faults : Run(e, cmd, fault)

RunnerSpec == EnvironmentsInit /\ [][RunnerNext]_vars

\* The storage areas are directories and volumes of the host: they can go
\* away behind the backend's back (rm -r, docker volume rm, a command run in
\* the environment), which is what leaves an environment in a "broken state".
Removed(e, area) ==
    /\ envs[e][area]
    /\ Called("removed", e, "host", Checked(TRUE, [envs[e] EXCEPT ![area] = FALSE], {}))
    /\ UNCHANGED <<pkgVars, nameVars, dependsVars, diskVars, procVars, runner, user_envs, pending>>

HostNext ==
    \/ RunnerNext
    \/ \E e \in EnvNames, area \in {"home", "work"} : Removed(e, area)

HostSpec == EnvironmentsInit /\ [][HostNext]_vars

\* ------------------------------------------------------------------------
\* The checked wrapper in front of the backend (CheckedRunner)
\* ------------------------------------------------------------------------

CheckedRunner_run(s, cmd, fault) ==
    IF exists(s) # "FullyExists" THEN Checked(FALSE, s, {})
    ELSE Direct("run", s, run(s, cmd, fault))

CheckedRunner_create(s, fault) ==
    IF exists(s) # "NoEnvironment" THEN Checked(FALSE, s, {})
    ELSE LET created == create(s, fault)
             init == run(created.st, "Init", fault)
         IN  IF ~created.ok \/ exists(created.st) # "FullyExists"
             THEN Checked(FALSE, created.st, {Reach("create", s)})
             ELSE Checked(init.ok, init.st, {Reach("create", s), Reach("run", created.st)})

\* CheckedRunner_reset, without the look at exists after the backend's reset.
CheckedRunner_reset_unverified(s, fault) ==
    IF exists(s) = "NoEnvironment" THEN Checked(FALSE, s, {})
    ELSE LET cleared == reset(s, fault)
             init == run(cleared.st, "Init", fault)
         IN  IF ~cleared.ok
             THEN Checked(FALSE, cleared.st, {Reach("reset", s)})
             ELSE Checked(init.ok, init.st, {Reach("reset", s), Reach("run", cleared.st)})

CheckedRunner_reset(s, fault) ==
    IF exists(s) = "NoEnvironment" THEN Checked(FALSE, s, {})
    ELSE LET cleared == reset(s, fault)
             init == run(cleared.st, "Init", fault)
         IN  IF ~cleared.ok \/ exists(cleared.st) # "FullyExists"
             THEN Checked(FALSE, cleared.st, {Reach("reset", s)})
             ELSE Checked(init.ok, init.st, {Reach("reset", s), Reach("run", cleared.st)})

CheckedRunner_purge(s, fault) ==
    LET purged == purge(s, fault)
    IN  Checked(purged.ok /\ exists(purged.st) = "NoEnvironment", purged.st,
                {Reach("purge", s)})

\* ------------------------------------------------------------------------
\* Orchestrator flows and the environments of package builds
\* ------------------------------------------------------------------------

enter_environment(s, fault) ==
    IF exists(s) = "NoEnvironment" THEN Refused(s, "does not exist")
    ELSE IF exists(s) = "PartiallyExists" THEN Refused(s, "in broken state")
    ELSE CheckedRunner_run(s, "Interactive", fault)

exec_environment(s, fault) ==
    IF exists(s) = "NoEnvironment" THEN Refused(s, "does not exist")
    ELSE IF exists(s) = "PartiallyExists" THEN Refused(s, "in broken state")
    ELSE CheckedRunner_run(s, "Exec", fault)

purge_environment(s, fault) == CheckedRunner_purge(s, fault)

\* The builder environment is reset when it exists and created when not.
build_package(s, fault) ==
    IF exists(s) \in {"FullyExists", "PartiallyExists"}
    THEN CheckedRunner_reset(s, fault)
    ELSE CheckedRunner_create(s, fault)

\* The steps of test_package at which an error can arise.
TestSteps == {"purge", "seeds", "create", "run", "purge_after"}

\* fault strikes at the given step; each "?" returns the error at once.
test_package(s, step, fault) ==
    LET F(k) == IF step = k THEN fault ELSE "none"
        purged == CheckedRunner_purge(s, F("purge"))
        created == CheckedRunner_create(purged.st, F("create"))
        ran == CheckedRunner_run(created.st, "Exec", F("run"))
        final == CheckedRunner_purge(ran.st, F("purge_after"))
    IN  IF ~purged.ok THEN purged
        ELSE IF step = "seeds" /\ fault # "none" THEN Checked(FALSE, purged.st, purged.reached)
        ELSE IF ~created.ok
             THEN Checked(FALSE, created.st, purged.reached \cup created.reached)
        ELSE IF ~ran.ok
             THEN Checked(FALSE, ran.st,
                          purged.reached \cup created.reached \cup ran.reached)
        ELSE Checked(final.ok, final.st,
                     purged.reached \cup created.reached \cup ran.reached
                         \cup final.reached)

\* new_environment, taking a broken environment for a free name.
new_environment_over_broken(s) ==
    IF exists(s) = "FullyExists" THEN Refused(s, "already exists")
    ELSE Checked(TRUE, s, {})

\* The head of new_environment: the name must not be in use.
new_environment(s) ==
    IF exists(s) = "NoEnvironment" THEN Checked(TRUE, s, {})
    ELSE IF exists(s) = "PartiallyExists" THEN Refused(s, "in broken state")
    ELSE Refused(s, "already exists")

\* The head of reset_environment: the environment must exist.
reset_environment(s) ==
    IF exists(s) = "NoEnvironment" THEN Refused(s, "does not exist")
    ELSE Checked(TRUE, s, {})

\* cub enter
Enter(e, fault) ==
    /\ pending = Idle
    /\ Called("enter", e, "user", enter_environment(envs[e], fault))
    /\ UNCHANGED <<pkgVars, nameVars, dependsVars, diskVars, procVars, runner, user_envs, pending>>

\* cub exec
Exec(e, fault) ==
    /\ pending = Idle
    /\ Called("exec", e, "user", exec_environment(envs[e], fault))
    /\ UNCHANGED <<pkgVars, nameVars, dependsVars, diskVars, procVars, runner, user_envs, pending>>

\* cub purge
PurgeEnvironment(e, fault) ==
    /\ pending = Idle
    /\ LET r == purge_environment(envs[e], fault)
       IN  /\ Called("purge", e, "user", r)
           /\ user_envs' = IF r.ok THEN user_envs \ {e} ELSE user_envs
    /\ UNCHANGED <<pkgVars, nameVars, dependsVars, diskVars, procVars, runner, pending>>

\* cub new, up to the call of update_packages: the name must be unused.
NewEnvironmentCheck(e) ==
    /\ pending = Idle
    /\ IF new_environment(envs[e]).ok
       THEN /\ pending' = [op |-> "new", env |-> e]
            /\ UNCHANGED <<envs, last>>
       ELSE /\ Called("new", e, "user", new_environment(envs[e]))
            /\ UNCHANGED pending
    /\ UNCHANGED <<pkgVars, nameVars, dependsVars, diskVars, procVars, runner, user_envs>>

\* cub new, after update_packages returned (updated says how).
NewEnvironmentCreate(updated, fault) ==
    /\ pending.op = "new"
    /\ LET e == pending.env
           r == IF updated THEN CheckedRunner_create(envs[e], fault)
                ELSE Checked(FALSE, envs[e], {})
       IN  /\ Called("new", e, "user", r)
           /\ user_envs' = IF r.ok THEN user_envs \cup {e} ELSE user_envs
    /\ pending' = Idle
    /\ UNCHANGED <<pkgVars, nameVars, dependsVars, diskVars, procVars, runner>>

\* cub reset, up to the call of update_packages: the environment must exist.
ResetEnvironmentCheck(e) ==
    /\ pending = Idle
    /\ IF reset_environment(envs[e]).ok
       THEN /\ pending' = [op |-> "reset", env |-> e]
            /\ UNCHANGED <<envs, last>>
       ELSE /\ Called("reset", e, "user", reset_environment(envs[e]))
            /\ UNCHANGED pending
    /\ UNCHANGED <<pkgVars, nameVars, dependsVars, diskVars, procVars, runner, user_envs>>

\* cub reset, after update_packages returned (updated says how).
ResetEnvironmentReset(updated, fault) ==
    /\ pending.op = "reset"
    /\ LET e == pending.env
           r == IF updated THEN CheckedRunner_reset(envs[e], fault)
                ELSE Checked(FALSE, envs[e], {})
       IN  Called("reset", e, "user", r)
    /\ pending' = Idle
    /\ UNCHANGED <<pkgVars, nameVars, dependsVars, diskVars, procVars, runner, user_envs>>

\* cub package update: update_packages on its own.
UpdateStart ==
    /\ pending = Idle
    /\ pending' = [op |-> "update", env |-> "none"]
    /\ UNCHANGED <<pkgVars, nameVars, dependsVars, diskVars, procVars, runner, envs, last, user_envs>>

UpdateEnd ==
    /\ pending.op = "update"
    /\ pending' = Idle
    /\ UNCHANGED <<pkgVars, nameVars, dependsVars, diskVars, procVars, runner, envs, last, user_envs>>

\* update_packages builds package p in its builder environment.
BuildEnvironment(p, fault) ==
    /\ pending # Idle
    /\ Called("build_package", for_builder_package(p), "build_package",
              build_package(envs[for_builder_package(p)], fault))
    /\ UNCHANGED <<pkgVars, nameVars, dependsVars, diskVars, procVars, runner, user_envs, pending>>

\* update_packages tests package p, right after building it.
TestEnvironment(p, step, fault) ==
    /\ pending # Idle
    /\ last.op = "build_package" /\ last.ok /\ last.env = for_builder_package(p)
    /\ Called("test_package", test_name(p), "test_package",
              test_package(envs[test_name(p)], step, fault))
    /\ UNCHANGED <<pkgVars, nameVars, dependsVars, diskVars, procVars, runner, user_envs, pending>>

CubicleNext ==
    \/ \E e \in EnvNames, fault \in Faults : Enter(e, fault)
    \/ \E e \in EnvNames, fault \in Faults : Exec(e, fault)
    \/ \E e \in EnvNames, fault \in Faults : PurgeEnvironment(e, fault)
    \/ \E e \in EnvNames : NewEnvironmentCheck(e)
    \/ \E updated \in BOOLEAN, fault \in Faults : NewEnvironmentCreate(updated, fault)
    \/ \E e \in EnvNames : ResetEnvironmentCheck(e)
    \/ \E updated \in BOOLEAN, fault \in Faults : ResetEnvironmentReset(updated, fault)
    \/ UpdateStart
    \/ UpdateEnd
    \/ \E fault \in Faults : BuildEnvironment("a", fault)
    \/ \E step \in TestSteps, fault \in Faults : TestEnvironment("a", step, fault)

CubicleSpec == EnvironmentsInit /\ [][CubicleNext]_vars

\* ------------------------------------------------------------------------
\* Properties of the environments of package builds and tests
\* ------------------------------------------------------------------------

\* C12, as stated: whenever test_package has returned, with Ok or with an
\* error, the test environment test-package-<name> does not exist.
C12_AsStated ==
    last.op = "test_package" => exists(envs[last.env]) = "NoEnvironment"

\* C13, as stated: a package build or a package test never resets or purges
\* an environment that the user created through new (and has not purged).
C13_AsStated ==
    (/\ last.by \in {"build_package", "test_package"}
     /\ \E x \in last.reached : x[1] \in {"reset", "purge"})
    => last.env \notin user_envs

\* ------------------------------------------------------------------------
\* Properties of the Runner backends
\* ------------------------------------------------------------------------

IsDocker == runner \in {"DockerBindMounts", "DockerVolumes"}

\* C14: on Bubblewrap and on Docker with bind mounts or named volumes, in
\* every state and for every environment, exists is FullyExists exactly when
\* both the home and the work storage are present, NoEnvironment exactly when
\* neither is present and (Docker) there is no container, and PartiallyExists
\* in every other case.
C14_ExistsByStorage ==
    runner \in {"Bubblewrap", "DockerBindMounts", "DockerVolumes"} =>
        \A e \in EnvNames :
            LET s == envs[e]
                full == s.home /\ s.work
                none == ~s.home /\ ~s.work /\ ~(IsDocker /\ s.live)
            IN  /\ exists(s) = "FullyExists" <=> full
                /\ exists(s) = "NoEnvironment" <=> none
                /\ (~full /\ ~none) => exists(s) = "PartiallyExists"

\* One environment is a container left without storage (PartiallyExists),
\* another has one of its two volumes (PartiallyExists as well).
C14_Witness ==
    /\ runner = "DockerVolumes"
    /\ \E e \in EnvNames : envs[e].live /\ ~envs[e].home /\ ~envs[e].work
    /\ \E e \in EnvNames : ~envs[e].live /\ envs[e].home /\ ~envs[e].work

\* C15, as stated: on the User backend, in every state reached by create,
\* reset and purge, including calls that fail part-way, exists is FullyExists
\* exactly when the account's home directory and its ~/w are both present.
C15_AsStated ==
    runner = "User" =>
        \A e \in EnvNames :
            exists(envs[e]) = "FullyExists" <=> (envs[e].home /\ envs[e].work)

\* The backend's live instance of an environment: a Docker container or a
\* user account (Bubblewrap keeps none).
LiveInstance(e) == runner # "Bubblewrap" /\ envs[e].live

\* C16: on every backend and in every state, exists(env) is NoEnvironment
\* exactly when env is not in list() and the backend has no live instance
\* (container, user account) for env.
C16_NoEnvironmentIffUnlisted ==
    \A e \in EnvNames :
        exists(envs[e]) = "NoEnvironment" <=> (e \notin list /\ ~LiveInstance(e))

\* Bubblewrap: one environment has its work directory only and is listed,
\* the other has nothing and is not.
C16_Witness ==
    /\ runner = "Bubblewrap"
    /\ \E e \in EnvNames : ~envs[e].home /\ envs[e].work /\ e \in list
    /\ \E e \in EnvNames : exists(envs[e]) = "NoEnvironment" /\ e \notin list

\* C17: on every backend, when purge(env) has returned Ok, whatever the
\* state before (nothing, part or all of the environment, with or without a
\* live instance), exists(env) is NoEnvironment and env is not in list();
\* and purging again succeeds and changes nothing.
C17_PurgeRemovesAll ==
    (last.op = "purge" /\ last.ok) =>
        LET e == last.env
        IN  /\ exists(envs[e]) = "NoEnvironment"
            /\ e \notin list
            /\ purge(envs[e], "none") = Done(TRUE, envs[e])

\* A purge succeeded on an environment that was whole and had a live
\* instance: the account of a User environment.
C17_Witness ==
    /\ runner = "User"
    /\ last.op = "purge" /\ last.ok /\ last.pre = "FullyExists"
    /\ envs[last.env] = Absent

\* C18: on every backend, when create(env) has returned Ok on an environment
\* that was NoEnvironment, exists(env) is FullyExists and env is in list().
C18_CreateMakesAll ==
    (last.op = "create" /\ last.ok /\ last.pre = "NoEnvironment") =>
        /\ exists(envs[last.env]) = "FullyExists"
        /\ last.env \in list

\* A create succeeded on an environment that did not exist, next to one that
\* exists already.
C18_Witness ==
    /\ last.op = "create" /\ last.ok /\ last.pre = "NoEnvironment"
    /\ envs[last.env].home /\ envs[last.env].work
    /\ \E e \in EnvNames \ {last.env} : exists(envs[e]) = "FullyExists"

\* C19, as stated: on every backend and storage mode, the backend's
\* create(env) returns an error when exists(env) was FullyExists.
C19_AsStated ==
    (last.op = "create" /\ last.pre = "FullyExists") => ~last.ok

\* ------------------------------------------------------------------------
\* Properties of the orchestrator in front of the checked wrapper
\* ------------------------------------------------------------------------

C21_AsStated ==
    (last.op = "reset" /\ last.ok /\ last.pre = "PartiallyExists") =>
        exists(envs[last.env]) = "FullyExists"

\* ------------------------------------------------------------------------
\* Properties of new
\* ------------------------------------------------------------------------

\* C22: new on an environment name that is in use never gets to
\* update_packages; it returns at once, with 'already exists' when the
\* environment FullyExists and 'broken state' when it PartiallyExists, reaches
\* no Runner operation and leaves the package cache and every environment
\* as they were.
C22_NewRefused ==
    [][ /\ \A e \in EnvNames :
               (pending = Idle /\ exists(envs[e]) # "NoEnvironment")
                   => pending' # [op |-> "new", env |-> e]
        /\ (pending = Idle /\ last' # last /\ last'.op = "new") =>
               /\ exists(envs[last'.env]) # "NoEnvironment"
               /\ ~last'.ok
               /\ last'.err = IF exists(envs[last'.env]) = "FullyExists"
                              THEN "already exists" ELSE "in broken state"
               /\ last'.reached = {}
               /\ pending' = Idle
               /\ UNCHANGED <<envs, tar, testing, failed, pc, log>>
      ]_vars

\* new was turned down on an environment that exists in part.
C22_Witness ==
    /\ last.op = "new" /\ ~last.ok /\ last.err = "in broken state"
    /\ last.pre = "PartiallyExists" /\ last.reached = {}
    /\ pending = Idle

\* ------------------------------------------------------------------------
\* The package list of an environment: new, reset and purge with packages
\* ------------------------------------------------------------------------

\* The names of a command line, parsed one by one; and the set they make.
from_cli(args) == [i \in DOMAIN args |-> FullPackageName_from_str(args[i])]
cli_set(args) == BTreeSet_from([i \in DOMAIN args |-> from_cli(args)[i].value[1]])

\* What new or reset updated and seeded: the set of packages, and whether
\* it wrote packages.txt for it (always in new; `changed' in reset).
Seeded(changed, set) == [changed |-> changed, packages |-> set]

\* The set that new and reset take when no packages are given.
default == <<Root(<<"d", "e", "f", "a", "u", "l", "t">>)>>

\* Cubicle::new_environment, as to the package list: the packages given, or
\* the default, are updated and seeded, and packages.txt is seeded with
\* them.  It goes on only when the environment does not exist, and it is
\* followed here when update_packages and Runner::create succeed.
NewPackages(e, cli) ==
    /\ e \notin user_envs
    /\ cli # None => \A i \in DOMAIN cli[1] : from_cli(cli[1])[i].ok
    /\ LET P == IF cli = None THEN default ELSE cli_set(cli[1])
       IN  /\ packages_txt' = [packages_txt EXCEPT ![e] = WorkFile(write_package_list_tar(P))]
           /\ given' = [given EXCEPT ![e] = Some(P)]
           /\ seeded' = [seeded EXCEPT ![e] = Some(Seeded(TRUE, P))]
    /\ user_envs' = user_envs \cup {e}
    /\ UNCHANGED <<pkgVars, dependsVars, diskVars, procVars, runner, envs, last, pending, call>>

\* Cubicle::reset_environment, as to the package list: the packages given
\* replace packages.txt; without them the set is read from packages.txt,
\* which is then left as it is, or is the default when there is no
\* packages.txt.  Reset keeps the work directory, so nothing else writes
\* the file.  It is followed here when every later step succeeds.
ResetPackages(e, cli) ==
    /\ e \in user_envs
    /\ cli # None => \A i \in DOMAIN cli[1] : from_cli(cli[1])[i].ok
    /\ cli = None /\ packages_txt[e].present =>
           read_package_list_from_env(packages_txt[e]).ok
    /\ LET changed == cli # None \/ ~packages_txt[e].present
           P == IF cli # None THEN cli_set(cli[1])
                ELSE IF packages_txt[e].present
                     THEN read_package_list_from_env(packages_txt[e]).set
                     ELSE default
       IN  /\ packages_txt' =
                  IF changed
                  THEN [packages_txt EXCEPT ![e] = WorkFile(write_package_list_tar(P))]
                  ELSE packages_txt
           /\ given' = IF cli # None THEN [given EXCEPT ![e] = Some(P)] ELSE given
           /\ seeded' = [seeded EXCEPT ![e] = Some(Seeded(changed, P))]
    /\ UNCHANGED <<pkgVars, dependsVars, diskVars, procVars, runner, envs, last, user_envs, pending, call>>

\* Cubicle::purge_environment: the work directory goes with the environment.
PurgePackages(e) ==
    /\ e \in user_envs
    /\ user_envs' = user_envs \ {e}
    /\ packages_txt' = [packages_txt EXCEPT ![e] = NoPackagesTxt]
    /\ given' = [given EXCEPT ![e] = None]
    /\ seeded' = [seeded EXCEPT ![e] = None]
    /\ UNCHANGED <<pkgVars, dependsVars, diskVars, procVars, runner, envs, last, pending, call>>

\* FullPackageName::from_str on a text.
Parse(text) ==
    /\ call' = NameCall("from_str", <<>>, <<text>>,
                        FullPackageName_from_str(text), "", <<>>)
    /\ UNCHANGED <<pkgVars, dependsVars, diskVars, procVars, envVars, packages_txt, given, seeded>>

\* A name is written with unquoted and the text is parsed.
Unquoted(x) ==
    /\ call' = NameCall("unquoted", <<x>>, <<FullPackageName_unquoted(x)>>,
                        FullPackageName_from_str(FullPackageName_unquoted(x)),
                        "", <<>>)
    /\ UNCHANGED <<pkgVars, dependsVars, diskVars, procVars, envVars, packages_txt, given, seeded>>

\* update_package_: the builder environment of x is named, with x shown as
\* in the names of its cache files.
BuilderName(x) ==
    /\ call' = NameCall("for_builder_package", <<x>>,
                        <<FullPackageName_unquoted(x)>>,
                        EnvironmentName_for_builder_package(
                            FullPackageName_unquoted(x)),
                        "", <<>>)
    /\ UNCHANGED <<pkgVars, dependsVars, diskVars, procVars, envVars, packages_txt, given, seeded>>

\* test_package: the test environment of x is named.
TestName(x) ==
    /\ call' = NameCall("test_name", <<x>>, <<FullPackageName_unquoted(x)>>,
                        EnvironmentName_for_test(FullPackageName_unquoted(x)),
                        "", <<>>)
    /\ UNCHANGED <<pkgVars, dependsVars, diskVars, procVars, envVars, packages_txt, given, seeded>>

\* Two names are compared.
Cmp(x, y) ==
    /\ call' = NameCall("cmp", <<x, y>>,
                        <<FullPackageName_unquoted(x), FullPackageName_unquoted(y)>>,
                        NotParsed(""), FullPackageName_cmp(x, y), <<>>)
    /\ UNCHANGED <<pkgVars, dependsVars, diskVars, procVars, envVars, packages_txt, given, seeded>>

\* tests::full_package_name_ord: the texts are parsed, the names sorted and
\* written with unquoted.
Sort(texts) ==
    /\ \A i \in DOMAIN texts : FullPackageName_from_str(texts[i]).ok
    /\ LET names == [i \in DOMAIN texts |-> FullPackageName_from_str(texts[i]).value[1]]
       IN  call' = NameCall("sort", names, texts, NotParsed(""), "",
                            [i \in DOMAIN texts |->
                                 FullPackageName_unquoted(sort(names)[i])])
    /\ UNCHANGED <<pkgVars, dependsVars, diskVars, procVars, envVars, packages_txt, given, seeded>>

PackageListNext ==
    \/ \E e \in UserEnvNames, cli \in CliPackages : NewPackages(e, cli)
    \/ \E e \in UserEnvNames, cli \in CliPackages : ResetPackages(e, cli)
    \/ \E e \in UserEnvNames : PurgePackages(e)

\* The Bubblewrap backend, no environment yet.
BubblewrapInit == EnvironmentsInit /\ runner = "Bubblewrap"

PackageListSpec == BubblewrapInit /\ [][PackageListNext]_vars

NamesNext ==
    \/ \E text \in Texts : Parse(text)
    \/ \E x \in FullPackageNames : Unquoted(x)
    \/ \E x, y \in FullPackageNames : Cmp(x, y)
    \/ \E x \in FullPackageNames : BuilderName(x)
    \/ \E x \in FullPackageNames : TestName(x)
    \/ \E texts \in SortInputs : Sort(texts)

NamesSpec == BubblewrapInit /\ [][NamesNext]_vars

\* ------------------------------------------------------------------------
\* Properties of the package list
\* ------------------------------------------------------------------------

\* The characters of all the lines together.
RECURSIVE FoldLen(_)
FoldLen(ls) == IF ls = <<>> THEN 0 ELSE Len(Head(ls)) + FoldLen(Tail(ls))

\* C23: once new or reset has succeeded with the packages P, packages.txt
\* of the environment holds the unquoted names of P, one per line;
\* read_package_list_from_env gives P back from it; and whatever reset
\* without packages updates and seeds afterwards is P.
C23_PackageListKept ==
    \A e \in UserEnvNames :
        given[e] # None =>
            LET P == given[e][1]
            IN  /\ packages_txt[e].present
                /\ lines(packages_txt[e].content)
                       = [i \in DOMAIN P |-> FullPackageName_unquoted(P[i])]
                /\ Len(packages_txt[e].content)
                       = Len(P) + FoldLen(lines(packages_txt[e].content))
                /\ read_package_list_from_env(packages_txt[e])
                       = [ok |-> TRUE, set |-> P]
                /\ seeded[e] # None /\ seeded[e][1].packages = P

\* reset without packages has read the two packages of alpha from its
\* packages.txt: a managed one, and a Root package that was given as
\* cubicle.c.
C23_Witness ==
    /\ seeded["alpha"] # None /\ ~seeded["alpha"][1].changed
    /\ given["alpha"] = Some(<<Managed(<<"b">>, <<"a">>), Root(<<"c">>)>>)

\* ------------------------------------------------------------------------
\* Properties of the name functions
\* ------------------------------------------------------------------------

\* C24, as stated: whatever valid namespace and valid name x is made of (the
\* name may hold '.'), parsing the unquoted text of x gives x back.
C24_AsStated ==
    call.op = "unquoted" => call.parsed = Parsed(call.names[1])

\* s comes before t in the lexicographic order of their bytes: at the first
\* place where they differ s has the smaller byte, or has ended.
LexLess(s, t) ==
    \E k \in 1..Len(t) :
        /\ \A j \in 1..(k - 1) : j <= Len(s) /\ s[j] = t[j]
        /\ k > Len(s) \/ Byte(s[k]) < Byte(t[k])

ScanPackages ==
    /\ LET scanned == scan_packages(dirs)
       IN  returned' = Returned("scan_packages", {}, FALSE,
                                IF scanned.err = NoError THEN scanned.specs ELSE <<>>,
                                {}, scanned.err)
    /\ UNCHANGED <<pkgVars, envVars, nameVars, diskVars, procVars, dirs>>

\* transitive_depends as the callers of scan_packages call it, on the specs
\* that scan_packages has returned last.  (scan_packages itself calls it for
\* "auto" on the specs that add_packages has made.)
TransitiveDepends(asked, build_depends) ==
    /\ returned.specs # <<>>
    /\ LET specs_ == returned.specs
           r == transitive_depends(asked, specs_, build_depends)
       IN  returned' = Returned("transitive_depends", asked, build_depends,
                                specs_, r.visited, r.err)
    /\ UNCHANGED <<pkgVars, envVars, nameVars, diskVars, procVars, dirs>>

\* Cubicle::build_package for a package of the specs last scanned, with some
\* of the artifacts in the cache, up to the Init that it gives the Runner.
BuildPackageOn(package_name, cached) ==
    /\ returned.specs # <<>>
    /\ SpecKey(package_name) \in DOMAIN returned.specs
    /\ package_name.ns.kind = "Managed" =>
           returned.specs[SpecKey(package_name)].package_manager
    /\ LET specs_ == returned.specs
           r == build_package_init(package_name, specs_, cached)
       IN  returned' = [Returned("build_package", r.packages, FALSE, specs_, {}, r.err)
                           EXCEPT !.package_name = <<package_name>>,
                                  !.cached = cached,
                                  !.seeds = r.seeds]
    /\ UNCHANGED <<pkgVars, envVars, nameVars, diskVars, procVars, dirs>>

\* ------------------------------------------------------------------------
\* The loop of update_packages on the specs that scan_packages returns
\* ------------------------------------------------------------------------

\* for full_name in todo: a package whose dependencies are done is done
\* (built if it needs to be), the others are put off.  [later, done].
RECURSIVE for_todo(_, _, _, _)
for_todo(todo_, later_, done_, specs_) ==
    IF todo_ = <<>> THEN [later |-> later_, done |-> done_]
    ELSE LET p == Head(todo_)
         IN  IF deps_ready(specs_[SpecKey(p)], done_)
             THEN for_todo(Tail(todo_), later_, done_ \cup {p}, specs_)
             ELSE for_todo(Tail(todo_), Append(later_, p), done_, specs_)

\* loop { ... }: what update_packages returns when no update_package fails.
RECURSIVE update_packages_loop(_, _, _)
update_packages_loop(todo_, done_, specs_) ==
    IF Len(todo_) = 0 THEN NoError
    ELSE LET pass == for_todo(todo_, <<>>, done_, specs_)
         IN  IF Len(pass.later) = Len(todo_)
             THEN Err("unsatisfiable", UnsatisfiableMsg(pass.later))
             ELSE update_packages_loop(pass.later, pass.done, specs_)

\* update_packages(packages, specs, ..) when no update_package fails.
update_packages(packages_, specs_) ==
    LET deps == transitive_depends(packages_, specs_, TRUE)
    IN  IF deps.err # NoError THEN deps.err
        ELSE update_packages_loop(
                 InOrder(ByDisplay, {p \in deps.visited : p.ns # NsDebian}),
                 {}, specs_)

\* The sets of packages that update_packages is called for.
UpdateTargets == Asked \cup {{Root("auto")}, {Root("a"), Root("c")}}

\* update_packages on the specs last scanned.
UpdatePackagesOn(asked) ==
    /\ returned.specs # <<>>
    /\ returned' = Returned("update_packages", asked, TRUE, returned.specs, {},
                            update_packages(asked, returned.specs))
    /\ UNCHANGED <<pkgVars, envVars, nameVars, diskVars, procVars, dirs>>

\* Nothing else happens: no invocation of update_packages, no environment.
DependsInit ==
    /\ PackagesInit
    /\ src = 1
    /\ runner = "Bubblewrap"
    /\ envs = [e \in EnvNames |-> Absent]
    /\ last = NoCall
    /\ user_envs = {}
    /\ pending = Idle
    /\ NamesInit
    /\ dirs \in Trees
    /\ returned = NotReturned
    /\ DiskInit
    /\ ProcInit

DependsNext ==
    \/ ScanPackages
    \/ \E asked \in Asked, build_depends \in BOOLEAN :
           TransitiveDepends(asked, build_depends)
    \/ \E asked \in UpdateTargets : UpdatePackagesOn(asked)
    \/ \E package_name \in Artifacts, cached \in Caches :
           BuildPackageOn(package_name, cached)

DependsSpec == DependsInit /\ [][DependsNext]_vars

\* ------------------------------------------------------------------------
\* Properties of scan_packages
\* ------------------------------------------------------------------------

\* The build closure of "auto" in the specs that scan_packages returned.
AutoClosure == transitive_depends({Root("auto")}, returned.specs, TRUE).visited

\* C26, as stated: after scan_packages, "auto" is among the depends of a Root
\* package N exactly when N is not in the build closure of "auto".
C26_AsStated ==
    (returned.op = "scan_packages" /\ returned.err = NoError) =>
        \A n \in DOMAIN returned.specs :
            Root("auto") \in returned.specs[n].depends <=> Root(n) \notin AutoClosure

\* C26, amended: after scan_packages, "auto" is among the depends of a Root
\* package N exactly when N is not in the build closure of "auto" and is not
\* the package manager of a package of that closure; "auto" never depends on
\* itself.
C26_AutoUnlessNeededByAuto ==
    (returned.op = "scan_packages" /\ returned.err = NoError) =>
        /\ \A n \in DOMAIN returned.specs :
               Root("auto") \in returned.specs[n].depends
                   <=> /\ Root(n) \notin AutoClosure
                       /\ \A p \in AutoClosure : p.ns # NsManaged(n)
        /\ Root("auto") \notin returned.specs["auto"].depends

\* scan_packages has returned specs in which "auto" needs a package of the
\* package manager c to build, c itself is not in the closure of "auto" and
\* does not depend on "auto", and a does.
C26_Witness ==
    /\ returned.op = "scan_packages" /\ returned.err = NoError
    /\ Managed("c", "n") \in AutoClosure
    /\ Root("c") \notin AutoClosure
    /\ Root("auto") \notin returned.specs["c"].depends
    /\ Root("auto") \in returned.specs["a"].depends

\* ------------------------------------------------------------------------
\* Properties of update_packages on a dependency cycle
\* ------------------------------------------------------------------------

\* What package p waits for: the packages of the depends and build_depends
\* tables of its spec, the Debian ones left out.
WaitsFor(p) ==
    IF SpecKey(p) \in DOMAIN specs
    THEN {d \in specs[SpecKey(p)].depends \cup specs[SpecKey(p)].build_depends :
             d.ns # NsDebian}
    ELSE {}

\* The packages reached from those of S in at most k more steps.
RECURSIVE Reached(_, _)
Reached(S, k) ==
    IF k = 0 THEN S ELSE Reached(S \cup UNION {WaitsFor(q) : q \in S}, k - 1)

\* The packages p depends on, directly or not.
DependsOn(p) == Reached(WaitsFor(p), Cardinality(Universe))

\* The packages of the invocation that are on a dependency cycle, and those
\* that are on one or depend on a package that is.
OnCycle == {p \in Closure : p \in DependsOn(p)}
Stuck == {p \in Closure : p \in OnCycle \/ DependsOn(p) \cap OnCycle # {}}

\* The invocation has returned and the closure it was given has a cycle.
ReturnedOnCycle ==
    /\ pc = "returned"
    /\ transitive_depends(packages, specs, TRUE).err = NoError
    /\ OnCycle # {}

\* Nothing of package p was built: update_package was not called for it and
\* its artifact is as it was.
NotBuilt(p) ==
    /\ ~Happened("build", p)
    /\ tar[p] = tar0[p]

Unresolved(p) ==
    \/ p.ns.kind = "Root" /\ p.name \notin DOMAIN returned.specs
    \/ /\ p.ns.kind = "Managed"
       /\ \/ p.ns.manager \notin DOMAIN returned.specs
          \/ ~returned.specs[p.ns.manager].package_manager

\* What package p leads to: nothing for a Debian package or one that cannot
\* be looked up; else the depends of its spec (the manager's for a Managed
\* package) and, with the flag, its build_depends.
LeadsTo(p) ==
    IF p.ns.kind = "Debian" \/ Unresolved(p) THEN {}
    ELSE returned.specs[SpecKey(p)].depends
             \cup (IF returned.build_depends
                   THEN returned.specs[SpecKey(p)].build_depends ELSE {})

\* The least set of packages that contains those asked for and what each of
\* its members leads to.
LeastClosed ==
    LET all == DepTargets \cup {Root("a"), Root("auto"), Root("c")}
        closed(X) == returned.packages \subseteq X /\ \A p \in X : LeadsTo(p) \subseteq X
    IN  {p \in all : \A X \in SUBSET all : closed(X) => p \in X}

\* C28: transitive_depends returns, on cyclic graphs too; it returns an
\* error exactly when a package that cannot be looked up is reached, and
\* otherwise the least set that contains the packages asked for and is
\* closed under depends and, with the flag only, build_depends, Debian
\* packages being members that lead nowhere and Managed packages leading
\* where their manager's manifest does.
C28_LeastClosedSet ==
    returned.op = "transitive_depends" =>
        /\ returned.err # NoError <=> \E p \in LeastClosed : Unresolved(p)
        /\ returned.err = NoError => returned.visited = LeastClosed

\* transitive_depends has returned the closure of a, which depends on c,
\* which needs a to build: c, a Debian package of c and "auto" are in it.
C28_Witness ==
    /\ returned.op = "transitive_depends" /\ returned.err = NoError
    /\ returned.packages = {Root("a"), Debian("curl")}
    /\ returned.build_depends
    /\ Root("c") \in returned.specs["a"].depends
    /\ Root("a") \in returned.specs["c"].build_depends
    /\ returned.visited = {Root("a"), Root("c"), Root("auto"), Debian("curl")}

\* ------------------------------------------------------------------------
\* Properties of the seeds of a build
\* ------------------------------------------------------------------------

\* C29: the seeds that build_package gives the builder environment of
\* package P are the artifacts that exist in the cache of the least set of
\* packages that holds P's depends and build_depends and is closed under
\* depends alone, each once, and the tar of P's source directory under w.
C29_SeedsOfBuild ==
    (returned.op = "build_package" /\ returned.err = NoError) =>
        LET P == returned.package_name[1]
            spec == returned.specs[SpecKey(P)]
        IN  /\ returned.packages = spec.depends \cup spec.build_depends
            /\ ~returned.build_depends
            /\ {returned.seeds[i] : i \in DOMAIN returned.seeds}
                   = {CacheTar(q) : q \in LeastClosed \cap returned.cached}
                         \cup {SourceTar(SpecKey(P), "w")}
            /\ Len(returned.seeds) = Cardinality(LeastClosed \cap returned.cached) + 1

\* a is built with every artifact in the cache: a needs c to build, c needs
\* a to build, and the seeds are the artifacts of c and auto and the source
\* of a; the artifact of a, which only the build of c needs, is not among
\* them.
C29_Witness ==
    /\ returned.op = "build_package" /\ returned.err = NoError
    /\ returned.package_name = <<Root("a")>>
    /\ returned.cached = Artifacts
    /\ returned.specs["a"].build_depends = {Root("c")}
    /\ returned.specs["c"].build_depends = {Root("a")}
    /\ returned.seeds = <<CacheTar(Root("auto")), CacheTar(Root("c")),
                          SourceTar("a", "w")>>

\* ------------------------------------------------------------------------
\* The directories of Bubblewrap environments and the files in them
\* ------------------------------------------------------------------------

\* rmtree: the directory and all that is in it are removed; nothing is done
\* when there is none.  When it fails, the directory is still there with
\* those of its files that had not been removed yet.
rmtree(dir, failing, left) ==
    IF failing /\ dir.exists
    THEN Done(FALSE, [dir EXCEPT !.files = @ \cap left])
    ELSE Done(~failing, NoDir)

\* std::fs::create_dir: fails when the directory is there.
create_dir(dir, failing) ==
    IF dir.exists \/ failing THEN Done(FALSE, dir) ELSE Done(TRUE, EmptyDir)

\* std::fs::create_dir_all: a directory that is there is left as it is.
create_dir_all(dir, failing) ==
    IF dir.exists THEN Done(TRUE, dir)
    ELSE IF failing THEN Done(FALSE, dir)
    ELSE Done(TRUE, EmptyDir)

\* Bubblewrap::create on the two directories of the environment.
Bubblewrap_create_dirs(d, fault) ==
    LET home == create_dir(d.home, fault = "mk_home")
        work == create_dir(d.work, fault = "mk_work")
    IN  IF ~home.ok THEN Done(FALSE, d)
        ELSE IF ~work.ok THEN Done(FALSE, [d EXCEPT !.home = home.st])
        ELSE Done(TRUE, [home |-> home.st, work |-> work.st])

\* A variant of Bubblewrap::reset that removes the work tree as well.
Bubblewrap_reset_dirs_both(d, fault, left) ==
    LET removed == rmtree(d.home, fault = "rm_home", left)
    IN  IF ~removed.ok THEN Done(FALSE, [d EXCEPT !.home = removed.st])
        ELSE Done(TRUE, [home |-> EmptyDir, work |-> EmptyDir])

\* Bubblewrap::reset on the two directories of the environment.
Bubblewrap_reset_dirs(d, fault, left) ==
    LET removed == rmtree(d.home, fault = "rm_home", left)
        home == create_dir_all(removed.st, fault = "mk_home")
        work == create_dir_all(d.work, fault = "mk_work")
    IN  IF ~removed.ok THEN Done(FALSE, [d EXCEPT !.home = removed.st])
        ELSE IF ~home.ok THEN Done(FALSE, [d EXCEPT !.home = home.st])
        ELSE IF ~work.ok THEN Done(FALSE, [d EXCEPT !.home = home.st])
        ELSE Done(TRUE, [home |-> home.st, work |-> work.st])

\* Bubblewrap::purge on the two directories of the environment.
Bubblewrap_purge_dirs(d, fault, left) ==
    LET home == rmtree(d.home, fault = "rm_home", left)
        work == rmtree(d.work, fault = "rm_work", left)
    IN  IF ~home.ok THEN Done(FALSE, [d EXCEPT !.home = home.st])
        ELSE Done(work.ok, [home |-> home.st, work |-> work.st])

\* Bubblewrap::run: the command runs with the two directories bound
\* read-write and leaves the files home and work in them; bwrap fails when a
\* directory is missing.
Bubblewrap_run_dirs(d, home, work) ==
    IF d.home.exists /\ d.work.exists
    THEN Done(TRUE, [home |-> [exists |-> TRUE, files |-> home],
                     work |-> [exists |-> TRUE, files |-> work]])
    ELSE Done(FALSE, d)

\* Bubblewrap::create of environment e.
CreateDirs(e, fault) ==
    LET r == Bubblewrap_create_dirs(disk[e], fault)
    IN  /\ disk' = [disk EXCEPT ![e] = r.st]
        /\ disk_call' = DiskCall("create", e, disk[e], r.ok)
        /\ UNCHANGED <<pkgVars, envVars, nameVars, dependsVars, procVars>>

\* Bubblewrap::reset of environment e.
ResetDirs(e, fault, left) ==
    LET r == Bubblewrap_reset_dirs(disk[e], fault, left)
    IN  /\ disk' = [disk EXCEPT ![e] = r.st]
        /\ disk_call' = DiskCall("reset", e, disk[e], r.ok)
        /\ UNCHANGED <<pkgVars, envVars, nameVars, dependsVars, procVars>>

\* Bubblewrap::purge of environment e.
PurgeDirs(e, fault, left) ==
    LET r == Bubblewrap_purge_dirs(disk[e], fault, left)
    IN  /\ disk' = [disk EXCEPT ![e] = r.st]
        /\ disk_call' = DiskCall("purge", e, disk[e], r.ok)
        /\ UNCHANGED <<pkgVars, envVars, nameVars, dependsVars, procVars>>

\* Bubblewrap::run of a command in environment e.
RunDirs(e, home, work) ==
    LET r == Bubblewrap_run_dirs(disk[e], home, work)
    IN  /\ disk' = [disk EXCEPT ![e] = r.st]
        /\ disk_call' = DiskCall("run", e, disk[e], r.ok)
        /\ UNCHANGED <<pkgVars, envVars, nameVars, dependsVars, procVars>>

DiskNext ==
    \/ \E e \in UserEnvNames, fault \in {"none", "mk_home", "mk_work"} :
           CreateDirs(e, fault)
    \/ \E e \in UserEnvNames, fault \in {"none", "rm_home", "mk_home", "mk_work"},
          left \in SUBSET Files :
           ResetDirs(e, fault, left)
    \/ \E e \in UserEnvNames, fault \in {"none", "rm_home", "rm_work"},
          left \in SUBSET Files :
           PurgeDirs(e, fault, left)
    \/ \E e \in UserEnvNames, home \in SUBSET Files, work \in SUBSET Files :
           RunDirs(e, home, work)

DiskSpec == BubblewrapInit /\ [][DiskNext]_vars

\* Every other environment has the directories that it had.
OthersUntouched(e) ==
    \A o \in UserEnvNames \ {e} : disk'[o] = disk[o]

\* C30: Bubblewrap reset of an environment, whatever its directories were,
\* leaves an empty home directory and leaves the work directory with the
\* files that it had, creating it (empty) only when it was missing;
\* Bubblewrap purge of an environment leaves neither of its directories;
\* neither of them, returning Ok or not, changes a directory of another
\* environment, and a reset never changes a file of the work directory.
C30_ResetAndPurgeFrame ==
    [][\A e \in UserEnvNames :
          /\ (disk_call'.op = "reset" /\ disk_call'.env = e) =>
                /\ OthersUntouched(e)
                /\ disk'[e].work.files = disk[e].work.files
                /\ disk_call'.ok =>
                      /\ disk'[e].home = EmptyDir
                      /\ disk'[e].work =
                            IF disk[e].work.exists THEN disk[e].work ELSE EmptyDir
          /\ (disk_call'.op = "purge" /\ disk_call'.env = e) =>
                /\ OthersUntouched(e)
                /\ disk_call'.ok => disk'[e] = NoDirectories]_vars

\* A reset of alpha returned Ok when its home and its work directory had
\* files and beta's had files too: alpha's home is empty and the files of its
\* work directory and of beta are still there.
C30_Witness ==
    /\ disk_call.op = "reset" /\ disk_call.env = "alpha" /\ disk_call.ok
    /\ disk_call.before.home.files = Files
    /\ disk_call.before.work.files = {"f"}
    /\ disk["alpha"] = [home |-> EmptyDir, work |-> disk_call.before.work]
    /\ disk["beta"].home.files = {"g"}
    /\ disk["beta"].work.files = Files

\* ------------------------------------------------------------------------
\* User::reset, statement by statement
\* ------------------------------------------------------------------------

\* reset returns: the closure's scoped child and files are dropped.
ResetReturns(r) == [user EXCEPT !.pc = "idle", !.result = r]

\* What follows child.wait(): purge_and_restore only when tar has succeeded.
after_wait_unchecked(status) == "purge"

after_wait(status) == IF status THEN "purge" ELSE "idle"

\* User::create of the environment (create_user).
UserCreate ==
    /\ user.pc = "idle" /\ ~user.live
    /\ user' = [user EXCEPT !.live = TRUE, !.w = EmptyDir, !.result = "created"]
    /\ UNCHANGED <<pkgVars, envVars, nameVars, dependsVars, diskVars, docker, prev, staging, child>>

\* Commands run in the environment leave the files fs in ~/w.
UserWork(fs) ==
    /\ user.pc = "idle" /\ user.live /\ user.w.exists
    /\ user' = [user EXCEPT !.w = [exists |-> TRUE, files |-> fs], !.result = "ran"]
    /\ UNCHANGED <<pkgVars, envVars, nameVars, dependsVars, diskVars, docker, prev, staging, child>>

\* The user clears away the archive that an earlier reset has left.
UserClears ==
    /\ user.pc = "idle" /\ user.work_tar.exists
    /\ user' = [user EXCEPT !.work_tar = NoArchive, !.result = "cleared"]
    /\ UNCHANGED <<pkgVars, envVars, nameVars, dependsVars, diskVars, docker, prev, staging, child>>

\* kill_username(&username)?; create_dir_all(work_tars)?
ResetStart(failing) ==
    /\ user.pc = "idle"
    /\ user' = IF failing THEN ResetReturns("Err")
               ELSE [user EXCEPT !.pc = "spawn", !.saved = user.w,
                                 !.tar_status = FALSE, !.result = ""]
    /\ UNCHANGED <<pkgVars, envVars, nameVars, dependsVars, diskVars, docker, prev, staging, child>>

\* sudo --login --user <username> -- tar --create w, with stdout piped.
ResetSpawnTar(failing) ==
    /\ user.pc = "spawn"
    /\ user' = IF failing THEN ResetReturns("Err")
               ELSE [user EXCEPT !.pc = "open"]
    /\ UNCHANGED <<pkgVars, envVars, nameVars, dependsVars, diskVars, docker, prev, staging, child>>

\* OpenOptions::new().create_new(true).write(true).open(work_tar)
ResetOpen(failing) ==
    /\ user.pc = "open"
    /\ user' = IF failing \/ user.work_tar.exists THEN ResetReturns("Err")
               ELSE [user EXCEPT !.pc = "copy", !.work_tar = Archive({})]
    /\ UNCHANGED <<pkgVars, envVars, nameVars, dependsVars, diskVars, docker, prev, staging, child>>

\* io::copy(&mut stdout, &mut f)?; f.flush()?: tar has written the files
\* written to its stdout, all of ~/w when it is going to exit with success,
\* and the copy stops after the files copied when it fails.
ResetCopy(written, success, copied, failing) ==
    /\ user.pc = "copy"
    /\ written \subseteq user.w.files
    /\ success => user.live /\ user.w.exists /\ written = user.w.files
    /\ copied \subseteq written
    /\ ~failing => copied = written
    /\ user' = IF failing
               THEN [ResetReturns("Err") EXCEPT !.work_tar = Archive(copied)]
               ELSE [user EXCEPT !.pc = "wait", !.work_tar = Archive(copied),
                                 !.tar_status = success]
    /\ UNCHANGED <<pkgVars, envVars, nameVars, dependsVars, diskVars, docker, prev, staging, child>>

\* child.wait()?; if !status.success() { return Err(..) }
ResetWait(failing) ==
    /\ user.pc = "wait"
    /\ user' = IF failing \/ after_wait(user.tar_status) = "idle"
               THEN ResetReturns("Err")
               ELSE [user EXCEPT !.pc = after_wait(user.tar_status)]
    /\ UNCHANGED <<pkgVars, envVars, nameVars, dependsVars, diskVars, docker, prev, staging, child>>

\* self.purge(env_name)?: nothing when there is no account; deluser
\* --remove-home removes the home directory and then the account, and may
\* fail before either.
ResetPurge(fault) ==
    /\ user.pc = "purge"
    /\ user' = IF ~user.live THEN [user EXCEPT !.pc = "create_user"]
               ELSE CASE fault = "list" -> ResetReturns("Err")
                      [] fault = "deluser" -> ResetReturns("Err")
                      [] fault = "deluser_home" ->
                             [ResetReturns("Err") EXCEPT !.w = NoDir]
                      [] OTHER -> [user EXCEPT !.pc = "create_user",
                                               !.live = FALSE, !.w = NoDir]
    /\ UNCHANGED <<pkgVars, envVars, nameVars, dependsVars, diskVars, docker, prev, staging, child>>

\* self.create_user(&username)?: adduser, then mkdir w as the user.
ResetCreateUser(fault) ==
    /\ user.pc = "create_user"
    /\ user' = IF user.live \/ fault = "adduser" THEN ResetReturns("Err")
               ELSE IF fault = "mkdir"
               THEN [ResetReturns("Err") EXCEPT !.live = TRUE]
               ELSE [user EXCEPT !.pc = "init", !.live = TRUE, !.w = EmptyDir]
    /\ UNCHANGED <<pkgVars, envVars, nameVars, dependsVars, diskVars, docker, prev, staging, child>>

\* self.run(env_name, Init { seeds: [work_tar], script }): copy_in_seeds
\* extracts the archive in the home directory, the files extracted when it
\* fails; then the init script runs.
ResetInit(fault, extracted) ==
    /\ user.pc = "init"
    /\ extracted \subseteq user.work_tar.files
    /\ fault # "copy_in_seeds" => extracted = user.work_tar.files
    /\ LET w == [exists |-> TRUE, files |-> user.w.files \cup extracted]
       IN  user' = IF fault \in {"copy_in_seeds", "script"}
                   THEN [ResetReturns("Err") EXCEPT !.w = w]
                   ELSE [user EXCEPT !.pc = "remove", !.w = w]
    /\ UNCHANGED <<pkgVars, envVars, nameVars, dependsVars, diskVars, docker, prev, staging, child>>

\* Ok(()) => { std::fs::remove_file(work_tar)?; Ok(()) }
ResetRemove(failing) ==
    /\ user.pc = "remove"
    /\ user' = IF failing THEN ResetReturns("Err")
               ELSE [ResetReturns("Ok") EXCEPT !.work_tar = NoArchive]
    /\ UNCHANGED <<pkgVars, envVars, nameVars, dependsVars, diskVars, docker, prev, staging, child>>

UserResetNext ==
    \/ UserCreate
    \/ \E fs \in SUBSET Files : UserWork(fs)
    \/ UserClears
    \/ \E failing \in BOOLEAN : ResetStart(failing)
    \/ \E failing \in BOOLEAN : ResetSpawnTar(failing)
    \/ \E failing \in BOOLEAN : ResetOpen(failing)
    \/ \E written \in SUBSET Files, success \in BOOLEAN,
          copied \in SUBSET Files, failing \in BOOLEAN :
           ResetCopy(written, success, copied, failing)
    \/ \E failing \in BOOLEAN : ResetWait(failing)
    \/ \E fault \in {"none", "list", "deluser", "deluser_home"} : ResetPurge(fault)
    \/ \E fault \in {"none", "adduser", "mkdir"} : ResetCreateUser(fault)
    \/ \E fault \in {"none", "copy_in_seeds", "script"},
          extracted \in SUBSET Files : ResetInit(fault, extracted)
    \/ \E failing \in BOOLEAN : ResetRemove(failing)

\* The Host-User backend, no environment yet.
UserInit == EnvironmentsInit /\ runner = "User"

UserResetSpec == UserInit /\ [][UserResetNext]_vars

\* ------------------------------------------------------------------------
\* Properties of User::reset
\* ------------------------------------------------------------------------

\* The archive holds all of the work directory that reset was called on, and
\* tar has exited with success.
Archived(u) ==
    /\ u.work_tar = Archive(u.saved.files)
    /\ u.tar_status

\* C31: in every step of a Host-User reset, the account or its home
\* directory is removed only when the archive of ~/w is completely written
\* and tar has exited with success; the archive is removed only by the reset
\* that returns Ok, after purge, create_user and the Init run have
\* succeeded; when one of these three fails, reset returns the error and the
\* archive is as it was; and after every step the work directory that reset
\* was called on is in the environment or in the archive.
C31_WorkDataKept ==
    [][/\ user.pc # "idle" =>
            /\ (user.live /\ ~user'.live) \/ (user.w.exists /\ ~user'.w.exists)
                   => Archived(user)
            /\ (user.work_tar.exists /\ ~user'.work_tar.exists)
                   => user.pc = "remove" /\ user'.pc = "idle" /\ user'.result = "Ok"
            /\ (user.pc \in {"purge", "create_user", "init"} /\ user'.pc = "idle")
                   => user'.result = "Err" /\ user'.work_tar = user.work_tar
       /\ ((user.pc # "idle" \/ user'.pc # "idle") /\ user'.saved.exists)
               => user'.w = user'.saved \/ Archived(user')]_vars

\* A reset of an environment with two files in ~/w has returned an error
\* after the account was deleted: the files are in the archive only.
C31_Witness ==
    /\ user.pc = "idle" /\ user.result = "Err"
    /\ ~user.live /\ ~user.w.exists
    /\ user.saved = [exists |-> TRUE, files |-> Files]
    /\ user.work_tar = Archive(Files)

\* ------------------------------------------------------------------------
\* Docker::build_base
\* ------------------------------------------------------------------------

\* Docker::base_mtime: the LastTagTime of the image, None without an image.
base_mtime(b, inspect) ==
    IF inspect = "fails" THEN NotParsed("docker inspect")
    ELSE Parsed(b.image)

\* base_mtime.elapsed().unwrap_or(Duration::ZERO) < 12 hours
image_fresh(mtime, now_) ==
    LET elapsed == IF now_ >= mtime THEN now_ - mtime ELSE 0
    IN  elapsed < 60 * 60 * 12

\* A variant of build_base that builds the image in every call.
build_base_always(b, inspect, build) ==
    LET mtime == base_mtime(b, inspect)
    IN  IF ~mtime.ok
        THEN [b EXCEPT !.call = [op |-> "build_base", flag |-> b.built_base,
                  returned_ok |-> b.returned_ok, image |-> b.image, now |-> b.now,
                  inspected |-> FALSE, invoked |-> FALSE, ok |-> FALSE]]
        ELSE [b EXCEPT !.built_base = TRUE, !.built = TRUE, !.returned_ok = TRUE,
                  !.image = <<b.now>>,
                  !.call = [op |-> "build_base", flag |-> b.built_base,
                      returned_ok |-> b.returned_ok, image |-> b.image, now |-> b.now,
                      inspected |-> TRUE, invoked |-> TRUE, ok |-> TRUE]]

\* Docker::build_base: docker build tags the image at the time of the host.
build_base(b, inspect, build) ==
    LET mtime == base_mtime(b, inspect)
        at == IF mtime.ok /\ mtime.value[1] # <<>> THEN mtime.value[1][1] ELSE UNIX_EPOCH
        returning(inspected, invoked, ok) ==
            [op |-> "build_base", flag |-> b.built_base,
             returned_ok |-> b.returned_ok, image |-> b.image, now |-> b.now,
             inspected |-> inspected, invoked |-> invoked, ok |-> ok]
    IN  IF ~mtime.ok
        THEN [b EXCEPT !.call = returning(FALSE, FALSE, FALSE)]
        ELSE IF image_fresh(at, b.now) /\ b.built_base
        THEN [b EXCEPT !.returned_ok = TRUE, !.call = returning(TRUE, FALSE, TRUE)]
        ELSE IF build = "fails"
        THEN [b EXCEPT !.call = returning(TRUE, TRUE, FALSE)]
        ELSE [b EXCEPT !.built_base = TRUE, !.built = TRUE, !.returned_ok = TRUE,
                       !.image = <<b.now>>,
                       !.call = returning(TRUE, TRUE, TRUE)]

\* Docker::run or Docker::create calls build_base.
BuildBase(inspect, build) ==
    /\ docker' = build_base(docker, inspect, build)
    /\ UNCHANGED <<pkgVars, envVars, nameVars, dependsVars, diskVars, user, prev, staging, child>>

\* Six hours pass.
Tick ==
    /\ docker.now + 6 * Hour <= Started + MaxTicks * 6 * Hour
    /\ docker' = [docker EXCEPT !.now = @ + 6 * Hour, !.call = NoBaseCall]
    /\ UNCHANGED <<pkgVars, envVars, nameVars, dependsVars, diskVars, user, prev, staging, child>>

\* Another process tags the image (docker build, docker tag), its clock up
\* to six hours ahead of this host's, or removes it (docker rmi).
ImageChanged(image) ==
    /\ image # docker.image
    /\ image # <<>> => image[1] <= docker.now + 6 * Hour
    /\ docker' = [docker EXCEPT !.image = image, !.call = NoBaseCall]
    /\ UNCHANGED <<pkgVars, envVars, nameVars, dependsVars, diskVars, user, prev, staging, child>>

\* The process ends and cub is run again: Docker::new.
NewProcess ==
    /\ docker' = [NewDocker EXCEPT !.image = docker.image, !.now = docker.now]
    /\ UNCHANGED <<pkgVars, envVars, nameVars, dependsVars, diskVars, user, prev, staging, child>>

TagTimes == {<<>>} \cup {<<Started + k * 6 * Hour>> : k \in -1 .. MaxTicks + 1}

DockerBaseNext ==
    \/ \E inspect \in {"ok", "fails"}, build \in {"ok", "fails"} :
           BuildBase(inspect, build)
    \/ Tick
    \/ \E image \in TagTimes : ImageChanged(image)
    \/ NewProcess

\* The Docker backend, no environment yet.
DockerInit == EnvironmentsInit /\ runner = "DockerBindMounts"

DockerBaseSpec == DockerInit /\ [][DockerBaseNext]_vars

\* ------------------------------------------------------------------------
\* Properties of Docker::build_base
\* ------------------------------------------------------------------------

\* The image was there when build_base was called, tagged less than 12 hours
\* before.
LessThan12HoursOld(c) ==
    /\ c.image # <<>>
    /\ c.now - c.image[1] < 12 * Hour

\* C32 as the specification states it: while the flag is unset, build_base
\* invokes the image build.
C32_AsStated ==
    (docker.call.op = "build_base" /\ ~docker.call.flag) => docker.call.invoked

\* C32: once build_base has returned Ok in this process, a call made while
\* the image's last tag is less than 12 hours old returns without invoking
\* docker build; a call made while the flag is unset invokes docker build,
\* unless reading the last tag time (docker inspect) fails; and the flag is
\* set only when docker build has succeeded in this process, by the call that
\* ran it.
C32_BuildBaseMemoised ==
    /\ docker.call.op = "build_base" =>
          /\ (docker.call.returned_ok /\ LessThan12HoursOld(docker.call))
                => ~docker.call.invoked
          /\ (~docker.call.flag /\ docker.call.inspected) => docker.call.invoked
          /\ (~docker.call.flag /\ docker.built_base)
                => docker.call.invoked /\ docker.call.ok
    /\ docker.built_base => docker.built
    /\ docker.returned_ok => docker.built_base

\* build_base has returned without a build, after an earlier call in this
\* process built the image less than 12 hours before.
C32_Witness ==
    /\ docker.call.op = "build_base" /\ docker.call.ok /\ ~docker.call.invoked
    /\ docker.call.returned_ok /\ docker.call.flag
    /\ docker.call.image = <<Started>>
    /\ docker.call.now = Started + 6 * Hour

\* ------------------------------------------------------------------------
\* Termination of update_packages
\* ------------------------------------------------------------------------

\* The invocation goes on: the process runs, and every command that it
\* starts for a build or a test ends.
Running ==
    /\ \/ LoopHead \/ ForNext \/ EndPass
       \/ BuildPackage \/ CopyOut \/ TestPackage \/ Rename
    /\ UNCHANGED <<envVars, nameVars, dependsVars, diskVars, procVars>>

FairSpec == Spec /\ WF_vars(Running)

\* The packages that the pass under way has marked done.
MarkedInPass ==
    start_todos - Len(todo) - Len(later) - (IF full_name # <<>> THEN 1 ELSE 0)

\* A pass ends: by a return, or with the next pass.
PassEnds == pc \notin {"idle", "loop", "returned"} /\ pc' \in {"loop", "returned"}

\* C33 as the specification states it: each pass marks at least one package
\* done or returns the unsatisfiable error.
C33_AsStated ==
    [][PassEnds => \/ MarkedInPass > 0
                   \/ pc' = "returned" /\ result'.kind = "unsatisfiable"]_vars

\* The pass has gone through all of todo: it has made progress and the next
\* pass has less to do, or it returns the unsatisfiable error.
PassDone ==
    \/ /\ pc' = "loop"
       /\ MarkedInPass > 0
       /\ Len(todo') < start_todos
    \/ /\ pc' = "returned"
       /\ MarkedInPass = 0
       /\ result'.kind = "unsatisfiable"

\* The pass stops before the end of todo: with the error of a lookup or of
\* an update.
PassFails ==
    /\ pc' = "returned"
    /\ result' \notin {Ok, Pending}
    /\ result'.kind # "unsatisfiable"

\* C33: every invocation of update_packages returns; a pass that has gone
\* through all of todo has marked at least one package done, and the next
\* pass has a shorter todo, or it returns the unsatisfiable error; a pass
\* that does not get to the end of todo returns the error of the lookup or
\* update that failed; and Ok is returned only at the head of the loop with
\* an empty todo.
C33_Terminates ==
    /\ [][(PassEnds /\ todo = <<>> /\ full_name = <<>>) => PassDone]_vars
    /\ [][(PassEnds /\ ~(todo = <<>> /\ full_name = <<>>)) => PassFails]_vars
    /\ [][(pc # "returned" /\ pc' = "returned" /\ result' = Ok)
              => (pc = "loop" /\ todo = <<>>)]_vars
    /\ (pc \notin {"idle", "returned"}) ~> (pc = "returned")

\* The second pass of an invocation has marked the last packages done:
\* todo is empty at the head of the loop and Ok is returned next.
C33_Witness ==
    /\ pc = "loop" /\ todo = <<>>
    /\ start_todos > 0
    /\ start_todos < Cardinality(done)

\* ------------------------------------------------------------------------
\* update_packages called again
\* ------------------------------------------------------------------------

\* What prev remembers of the last invocation when it returns: the packages
\* it was called for, if it was called with IfStale for both modes, returned
\* Ok and every update_package that it called returned Ok.
Remembered ==
    IF /\ result = Ok
       /\ conditions = UpdatePackagesConditions("IfStale", "IfStale")
       /\ \A i \in 1..Len(log) : log[i].ev # "failed"
    THEN <<packages>>
    ELSE <<>>

\* update_packages is called: prev tells whether this is the same call as
\* the one remembered.
RefreshUpdatePackages(T, cond) ==
    /\ UpdatePackagesBefore(T, cond, MaxRefreshClock)
    /\ prev' = IF prev = <<T>> /\ cond = UpdatePackagesConditions("IfStale", "IfStale")
               THEN <<T, "again">>
               ELSE <<>>
    /\ UNCHANGED <<envVars, nameVars, dependsVars, diskVars, user, docker, staging, child>>

RefreshExit ==
    /\ Exit
    /\ prev' = Remembered
    /\ UNCHANGED <<envVars, nameVars, dependsVars, diskVars, user, docker, staging, child>>

\* A source tree changes: nothing is remembered.
RefreshTouchSource(n) ==
    /\ TouchSourceBefore(n, MaxRefreshClock)
    /\ prev' = <<>>
    /\ UNCHANGED <<envVars, nameVars, dependsVars, diskVars, user, docker, staging, child>>

RefreshRunning ==
    /\ Running
    /\ UNCHANGED prev

RefreshNext ==
    \/ \E p \in Mentioned, cond \in RefreshConditions : RefreshUpdatePackages({p}, cond)
    \/ RefreshRunning
    \/ RefreshExit
    \/ \E n \in DOMAIN specs : RefreshTouchSource(n)

\* The source trees of RefreshSpec.
RefreshSources == {2, 5}

RefreshInit == Init /\ src \in RefreshSources

RefreshSpec == RefreshInit /\ [][RefreshNext]_vars

\* ------------------------------------------------------------------------
\* Properties of update_packages called again
\* ------------------------------------------------------------------------

\* The invocation under way is the one remembered, called again.
Again == Len(prev) = 2

\* No artifact of the build closure is older than the auto_update duration
\* at the start of the invocation.
AutoUpdateNotElapsed ==
    \/ auto_update < 0
    \/ \A p \in Closure : tar0[p].exists => now - tar0[p].mtime <= auto_update

\* C34: update_packages(T, IfStale, IfStale) has returned Ok and every
\* update_package that it called returned Ok; no source tree has changed
\* since and update_packages(T, IfStale, IfStale) is called again before the
\* auto_update duration has elapsed for an artifact: update_package is not
\* called.
C34_RefreshBuildsNothing ==
    (Again /\ AutoUpdateNotElapsed) =>
        /\ pc \notin {"build_package", "copy_out", "test_package", "rename"}
        /\ \A i \in 1..Len(log) : log[i].ev # "build"

\* The invocation called again has returned Ok; one artifact of its closure
\* was built by the invocation before it and one by an earlier one.
C34_Witness ==
    /\ Again /\ AutoUpdateNotElapsed
    /\ pc = "returned" /\ result = Ok
    /\ \E p, q \in Closure :
          /\ tar0[p].exists /\ tar0[p].mtime = now - 1
          /\ tar0[q].exists /\ tar0[q].mtime = now - 2

\* ------------------------------------------------------------------------
\* The end of run: the exit status of the child
\* ------------------------------------------------------------------------

\* The statuses a child may end with: exit codes, and the signals SIGINT,
\* SIGKILL and SIGTERM.
ExitStatuses ==
    {Exited(c) : c \in {0, 1, 2, 127}} \cup {Signaled(sig) : sig \in {2, 9, 15}}

\* ExitStatus::success and ExitStatus::code.
ExitStatus_success(status) == status.kind = "exited" /\ status.n = 0
ExitStatus_code(status) ==
    IF status.kind = "exited" THEN Some(status.n) ELSE None

\* ExitStatusError::new: assert!(matches!(status.code(), Some(c) if c != 0)),
\* then the error value.
ExitStatusError_new(status) ==
    IF ExitStatus_code(status) # None /\ ExitStatus_code(status)[1] # 0
    THEN "Err" ELSE "panic"

\* if status.success() { Ok(()) } else { Err(ExitStatusError::new(..)) }
status_checked(status) ==
    IF ExitStatus_success(status) THEN "Ok" ELSE ExitStatusError_new(status)

\* The program that run waits for last on each backend.
Program ==
    CASE runner = "Bubblewrap" -> "bwrap"
      [] runner = "User" -> "sudo --user"
      [] OTHER -> "docker exec"

\* run on an environment that the backend can run in: the Docker backends
\* start the container with docker run when there is none, then every
\* backend waits for its child.  [child, st].
run_child(s, cmd, spawn_status, status) ==
    IF runner \in {"DockerBindMounts", "DockerVolumes"} /\ ~is_container(s)
           /\ ~ExitStatus_success(spawn_status)
    THEN [child |-> Child("docker run", spawn_status,
                          ExitStatusError_new(spawn_status)),
          st |-> s]
    ELSE [child |-> Child(Program, status, status_checked(status)),
          st |-> run(s, cmd, "none").st]

\* Runner::run with the statuses that its children end with.
RunChild(e, cmd, spawn_status, status) ==
    /\ run(envs[e], cmd, "none").ok
    /\ LET r == run_child(envs[e], cmd, spawn_status, status)
       IN  /\ child' = r.child
           /\ envs' = [envs EXCEPT ![e] = r.st]
    /\ UNCHANGED <<pkgVars, nameVars, dependsVars, diskVars, user, docker, prev, staging,
                   runner, last, user_envs, pending>>

ExitNext ==
    \/ \E e \in EnvNames, fault \in Faults : Create(e, fault)
    \/ \E e \in EnvNames, fault \in Faults : Stop(e, fault)
    \/ \E e \in EnvNames, cmd \in RunnerCommand, spawn_status, status \in ExitStatuses :
           RunChild(e, cmd, spawn_status, status)

ExitSpec == EnvironmentsInit /\ [][ExitNext]_vars

\* C38, as stated: whenever the child that run has waited for has ended
\* unsuccessfully, by an exit code that is not 0 or by a signal, run has
\* returned an error: the assertion of ExitStatusError::new has not failed.
C38_AsStated ==
    (child.program # "" /\ ~ExitStatus_success(child.status)) =>
        child.returned = "Err"

\* ------------------------------------------------------------------------
\* update_package_ on the bytes of the files
\* ------------------------------------------------------------------------

\* The contents a file may have: up to MaxBytes bytes.
MaxBytes == 2
Octets == {1, 2}
Contents == UNION {[1..n -> Octets] : n \in 0..MaxBytes}

\* A file opened with write(true) and neither truncate nor append is written
\* from its start: the bytes written replace the bytes at their places and
\* what the file held beyond them stays.
write_from_start(old, bytes) ==
    bytes \o SubSeq(old, Len(bytes) + 1, Len(old))

\* update_package_ returns.
StagingReturns(r) ==
    staging' = [staging EXCEPT !.pc = "returned", !.result = r]

\* update_package_, build_package: the builder environment is made anew and
\* the build script runs; provides.tar is what it leaves, if anything.
StagingBuild(test, provides, ok) ==
    /\ staging.pc = "idle"
    /\ IF ok
       THEN staging' = [staging EXCEPT !.pc = "open", !.test = test,
                                       !.provides = provides, !.copied = <<>>]
       ELSE staging' = [staging EXCEPT !.pc = "returned", !.result = "Err",
                                       !.test = test, !.provides = <<>>,
                                       !.copied = <<>>]
    /\ UNCHANGED <<pkgVars, envVars, nameVars, dependsVars, diskVars, user, docker, prev, child>>

\* open_with(testing_tar_name, create(true).write(true)): a file that is
\* there is opened as it is, one that is not is created empty.
StagingOpen(ok) ==
    /\ staging.pc = "open"
    /\ IF ok
       THEN staging' = [staging EXCEPT
                !.pc = "copy_out",
                !.testing_tar = IF staging.testing_tar = <<>> THEN << <<>> >>
                                ELSE staging.testing_tar]
       ELSE StagingReturns("Err")
    /\ UNCHANGED <<pkgVars, envVars, nameVars, dependsVars, diskVars, user, docker, prev, child>>

\* copy_out_from_home(env_name, "provides.tar", &mut file): provides.tar is
\* opened and io::copy writes its bytes to the file; written bytes of them
\* have been written when it returns, all of them when it returns Ok.
StagingCopyOut(written) ==
    /\ staging.pc = "copy_out"
    /\ IF staging.provides = <<>>
       THEN /\ written = 0
            /\ StagingReturns("Err")
       ELSE LET bytes == staging.provides[1]
                file == <<write_from_start(staging.testing_tar[1],
                                           SubSeq(bytes, 1, written))>>
            IN  /\ written <= Len(bytes)
                /\ \/ /\ written = Len(bytes)
                      /\ staging' = [staging EXCEPT
                             !.pc = IF staging.test THEN "test_package"
                                    ELSE "rename",
                             !.testing_tar = file,
                             !.copied = <<bytes>>]
                   \/ staging' = [staging EXCEPT !.pc = "returned",
                                                 !.result = "Err",
                                                 !.testing_tar = file]
    /\ UNCHANGED <<pkgVars, envVars, nameVars, dependsVars, diskVars, user, docker, prev, child>>

\* test_package, for a package with a test.sh.
StagingTest(ok) ==
    /\ staging.pc = "test_package"
    /\ IF ok THEN staging' = [staging EXCEPT !.pc = "rename"]
       ELSE StagingReturns("Err")
    /\ UNCHANGED <<pkgVars, envVars, nameVars, dependsVars, diskVars, user, docker, prev, child>>

\* rename(testing_tar_name, package_tar), then Ok(()).
StagingRename(ok) ==
    /\ staging.pc = "rename"
    /\ IF ok
       THEN staging' = [staging EXCEPT !.pc = "returned", !.result = "Ok",
                                       !.package_tar = staging.testing_tar,
                                       !.testing_tar = <<>>]
       ELSE StagingReturns("Err")
    /\ UNCHANGED <<pkgVars, envVars, nameVars, dependsVars, diskVars, user, docker, prev, child>>

\* The caller goes on; the files of the package cache stay.
StagingExit ==
    /\ staging.pc = "returned"
    /\ staging' = [staging EXCEPT !.pc = "idle", !.result = ""]
    /\ UNCHANGED <<pkgVars, envVars, nameVars, dependsVars, diskVars, user, docker, prev, child>>

StagingNext ==
    \/ \E test, ok \in BOOLEAN, provides \in {<<>>} \cup {<<c>> : c \in Contents} :
           StagingBuild(test, provides, ok)
    \/ \E ok \in BOOLEAN : StagingOpen(ok)
    \/ \E written \in 0..MaxBytes : StagingCopyOut(written)
    \/ \E ok \in BOOLEAN : StagingTest(ok)
    \/ \E ok \in BOOLEAN : StagingRename(ok)
    \/ StagingExit

StagingSpec == BubblewrapInit /\ [][StagingNext]_vars

\* C37, as stated: when update_package_ has returned Ok, the bytes of
\* <p>.tar are the bytes that this build has copied from provides.tar,
\* whatever <p>.testing.tar an earlier build has left.
C37_AsStated ==
    (staging.pc = "returned" /\ staging.result = "Ok") =>
        staging.package_tar = staging.copied

\* ------------------------------------------------------------------------
\* Names as keys
\* ------------------------------------------------------------------------

\* C36, as stated: two valid names that are not the same name do not compare
\* Equal, and neither their artifacts nor their failure markers have the
\* same file name in the package cache.
C36_AsStated ==
    (call.op = "cmp" /\ call.names[1] # call.names[2]) =>
        /\ call.ord # "Equal"
        /\ package_tar(call.names[1]) # package_tar(call.names[2])
        /\ failed_marker(call.names[1]) # failed_marker(call.names[2])

\* C39, as stated: for every valid package name, a name with '.' and a name
\* of a namespace included, the names of its builder environment and of its
\* test environment are valid environment names: naming them does not panic.
C39_AsStated ==
    call.op \in {"for_builder_package", "test_name"} => call.parsed.ok

\* ------------------------------------------------------------------------
\* Properties of the dependency graph
\* ------------------------------------------------------------------------

\* The packages of the model and, for the specs or manifests sp, what a
\* package waits for: the depends and build_depends of the spec it is looked
\* up by, without the Debian packages.
GraphNodes == {Root("a"), Root("auto"), Root("c")} \cup DepTargets

GraphEdges(sp, p) ==
    IF p.ns # NsDebian /\ SpecKey(p) \in DOMAIN sp
    THEN {d \in sp[SpecKey(p)].depends \cup sp[SpecKey(p)].build_depends :
             d.ns # NsDebian}
    ELSE {}

RECURSIVE GraphReached(_, _, _)
GraphReached(sp, S, k) ==
    IF k = 0 THEN S
    ELSE GraphReached(sp, S \cup UNION {GraphEdges(sp, q) : q \in S}, k - 1)

Acyclic(sp) ==
    \A p \in GraphNodes :
        p \notin GraphReached(sp, GraphEdges(sp, p), Cardinality(GraphNodes))

\* Every package that a manifest names has a spec.
AllReferencedHaveSpec(sp) ==
    \A n \in DOMAIN sp : \A d \in sp[n].depends \cup sp[n].build_depends :
        d.ns # NsDebian => SpecKey(d) \in DOMAIN sp

\* C35: the manifests as they are written have no dependency cycle and name
\* only packages that have a spec: then the specs that scan_packages returns
\* have no cycle, and update_packages on them does not return the
\* unsatisfiable error for any set of packages.
C35_AcyclicStaysAcyclic ==
    (returned.specs # <<>> /\ Acyclic(dirs) /\ AllReferencedHaveSpec(dirs)) =>
        /\ Acyclic(returned.specs)
        /\ returned.op = "update_packages" => returned.err.kind # "unsatisfiable"

\* update_packages({a}) has returned Ok on specs where a waits for auto,
\* auto for c, and a for a package of the package manager c as well.
C35_Witness ==
    /\ returned.op = "update_packages" /\ returned.err = NoError
    /\ returned.packages = {Root("a")}
    /\ Acyclic(dirs) /\ AllReferencedHaveSpec(dirs)
    /\ dirs["auto"].depends = {Root("c")}
    /\ dirs["a"].depends = {Managed("c", "n")}
    /\ Root("auto") \in returned.specs["a"].depends
    /\ Root("auto") \notin returned.specs["c"].depends

====
